---- MODULE Spec2Model ----
(***************************************************************************)
(* A model of mysql_ch_replicator/converter.py: the MySQL -> ClickHouse    *)
(* type mapper, the record transcoder and the ALTER TABLE translator.      *)
(*                                                                         *)
(* Python strings are TLA+ strings, handled character by character with    *)
(* Len, SubSeq and \o, so that every substring test, split, strip and      *)
(* case conversion of the source is computed, not assumed.                 *)
(*                                                                         *)
(* The converter is constructed with a db_replicator (converter.py:187),   *)
(* whose state.tables_structure holds the schema pairs and whose config    *)
(* holds the inclusion filters and the types_mapping overrides.            *)
(***************************************************************************)
EXTENDS Integers, Sequences, FiniteSets, TLC

VARIABLES
    types_mapping,      \* self.types_mapping: the configured MySQL type -> ClickHouse type overrides
    tables_structure,   \* db_replicator.state.tables_structure: table name -> (MySQL mirror, ClickHouse mirror)
    before,             \* tables_structure as it was when the last call began
    call,               \* the last call: the method and its arguments
    result,             \* how the last call ended: the value returned or the exception raised
    executed,           \* the destination DDL the last call handed to clickhouse_api.execute_command
    calls               \* the number of calls made so far

vars == <<types_mapping, tables_structure, before, call, result, executed, calls>>

(***************************************************************************)
(* Python str primitives                                                   *)
(***************************************************************************)

\* s[i] of a 1-based string, "" when i is out of range
Ch(s, i) == IF i >= 1 /\ i <= Len(s) THEN SubSeq(s, i, i) ELSE ""

\* s[i:] of Python with a 1-based start
From(s, i) == SubSeq(s, i, Len(s))

\* the backquote and the single quote
BQ == SubSeq("`'", 1, 1)
SQ == SubSeq("`'", 2, 2)

\* str.lower() and str.upper() of one ASCII letter
ToLower ==
    ("A" :> "a") @@ ("B" :> "b") @@ ("C" :> "c") @@ ("D" :> "d") @@ ("E" :> "e") @@
    ("F" :> "f") @@ ("G" :> "g") @@ ("H" :> "h") @@ ("I" :> "i") @@ ("J" :> "j") @@
    ("K" :> "k") @@ ("L" :> "l") @@ ("M" :> "m") @@ ("N" :> "n") @@ ("O" :> "o") @@
    ("P" :> "p") @@ ("Q" :> "q") @@ ("R" :> "r") @@ ("S" :> "s") @@ ("T" :> "t") @@
    ("U" :> "u") @@ ("V" :> "v") @@ ("W" :> "w") @@ ("X" :> "x") @@ ("Y" :> "y") @@
    ("Z" :> "z")
ToUpper ==
    ("a" :> "A") @@ ("b" :> "B") @@ ("c" :> "C") @@ ("d" :> "D") @@ ("e" :> "E") @@
    ("f" :> "F") @@ ("g" :> "G") @@ ("h" :> "H") @@ ("i" :> "I") @@ ("j" :> "J") @@
    ("k" :> "K") @@ ("l" :> "L") @@ ("m" :> "M") @@ ("n" :> "N") @@ ("o" :> "O") @@
    ("p" :> "P") @@ ("q" :> "Q") @@ ("r" :> "R") @@ ("s" :> "S") @@ ("t" :> "T") @@
    ("u" :> "U") @@ ("v" :> "V") @@ ("w" :> "W") @@ ("x" :> "X") @@ ("y" :> "Y") @@
    ("z" :> "Z")
\* int() of one digit, and str() of a number below 10
DigitValue ==
    ("0" :> 0) @@ ("1" :> 1) @@ ("2" :> 2) @@ ("3" :> 3) @@ ("4" :> 4) @@ ("5" :> 5) @@
    ("6" :> 6) @@ ("7" :> 7) @@ ("8" :> 8) @@ ("9" :> 9)
DigitChar == [n \in 0..9 |-> CHOOSE c \in DOMAIN DigitValue : DigitValue[c] = n]

IsDigit(c) == c \in DOMAIN DigitValue
\* the regex class \w on ASCII text
IsWord(c) == c \in DOMAIN ToLower \/ c \in DOMAIN ToUpper \/ c \in DOMAIN DigitValue \/ c = "_"

lower_char(c) == IF c \in DOMAIN ToLower THEN ToLower[c] ELSE c
upper_char(c) == IF c \in DOMAIN ToUpper THEN ToUpper[c] ELSE c

RECURSIVE lower(_)
\* str.lower(): every character lower-cased (the string is halved to keep the recursion shallow)
lower(s) ==
    IF Len(s) <= 1 THEN lower_char(s)
    ELSE lower(SubSeq(s, 1, Len(s) \div 2)) \o lower(SubSeq(s, Len(s) \div 2 + 1, Len(s)))

RECURSIVE upper(_)
\* str.upper()
upper(s) ==
    IF Len(s) <= 1 THEN upper_char(s)
    ELSE upper(SubSeq(s, 1, Len(s) \div 2)) \o upper(SubSeq(s, Len(s) \div 2 + 1, Len(s)))

\* the least element of a non-empty set of numbers
Min(S) == CHOOSE i \in S : \A j \in S : i <= j

\* str.startswith(p)
startswith(s, p) == Len(p) <= Len(s) /\ SubSeq(s, 1, Len(p)) = p

\* str.endswith(p)
endswith(s, p) == Len(p) <= Len(s) /\ SubSeq(s, Len(s) - Len(p) + 1, Len(s)) = p

\* str.find(p) with a 1-based result, 0 when p does not occur
find(s, p) ==
    LET hits == {i \in 1..(Len(s) - Len(p) + 1) : SubSeq(s, i, i + Len(p) - 1) = p}
    IN  IF hits = {} THEN 0 ELSE Min(hits)

\* p in s
contains(s, p) == p = "" \/ find(s, p) > 0

Whitespace == {" ", "\t", "\n", "\r"}
IsSpace(c) == c \in Whitespace

\* the first position at or after i of a character of s that is in stop, Len(s) + 1 when there is none
NextIn(s, i, stop) ==
    LET hits == {j \in i..Len(s) : Ch(s, j) \in stop}
    IN  IF hits = {} THEN Len(s) + 1 ELSE Min(hits)

\* the first position at or after i of a character of s that is not in skip, Len(s) + 1 when there is none
NextNotIn(s, i, skip) ==
    LET hits == {j \in i..Len(s) : Ch(s, j) \notin skip}
    IN  IF hits = {} THEN Len(s) + 1 ELSE Min(hits)

\* str.strip(): from the first to the last character that is not whitespace
strip(s) ==
    LET inner == {j \in 1..Len(s) : Ch(s, j) \notin Whitespace}
    IN  IF inner = {} THEN ""
        ELSE SubSeq(s, Min(inner), CHOOSE j \in inner : \A k \in inner : k <= j)

RECURSIVE split_ws(_, _)
\* str.split() from position i: the maximal runs of non-whitespace
split_ws(s, i) ==
    LET piece(start, end) ==
            IF start > Len(s) THEN <<>>
            ELSE <<SubSeq(s, start, end - 1)>> \o split_ws(s, end)
        from(start) == piece(start, NextIn(s, start, Whitespace))
    IN  from(NextNotIn(s, i, Whitespace))

split(s) == split_ws(s, 1)

RECURSIVE split_on(_, _, _)
\* str.split(sep) from position i, for a one-character sep: always at least one piece
split_on(s, sep, i) ==
    LET piece(end) ==
            IF end > Len(s) THEN <<SubSeq(s, i, Len(s))>>
            ELSE <<SubSeq(s, i, end - 1)>> \o split_on(s, sep, end + 1)
    IN  piece(NextIn(s, i, {sep}))

RECURSIVE join(_, _)
\* sep.join(parts)
join(sep, parts) ==
    IF parts = <<>> THEN ""
    ELSE IF Len(parts) = 1 THEN parts[1]
         ELSE parts[1] \o sep \o join(sep, Tail(parts))

RECURSIVE replace(_, _, _)
\* str.replace(old, new), old non-empty
replace(s, old, new) ==
    IF s = "" THEN ""
    ELSE IF startswith(s, old) THEN new \o replace(From(s, Len(old) + 1), old, new)
         ELSE Head(s) \o replace(Tail(s), old, new)

RECURSIVE int_of(_, _)
\* int(digits): acc is the value read so far
int_of(s, acc) == IF s = "" THEN acc ELSE int_of(Tail(s), acc * 10 + DigitValue[Head(s)])

RECURSIVE str_of(_)
\* str(n) for n >= 0
str_of(n) == IF n < 10 THEN DigitChar[n] ELSE str_of(n \div 10) \o DigitChar[n % 10]

(***************************************************************************)
(* Outcomes: a Python call returns a value or raises                       *)
(***************************************************************************)

\* None, and a value that is not None
None == <<>>
Some(v) == <<v>>

Ok(v) == [err |-> "", val |-> v]
Raise(e) == [err |-> e, val |-> ""]
IsOk(r) == r.err = ""

(***************************************************************************)
(* Module-level helpers of converter.py                                    *)
(***************************************************************************)

\* strip_sql_name: strip, then drop one leading and one trailing backquote
strip_sql_name(name) ==
    LET drop_first(n) == IF startswith(n, BQ) THEN From(n, 2) ELSE n
        drop_last(n) == IF endswith(n, BQ) THEN SubSeq(n, 1, Len(n) - 1) ELSE n
    IN  drop_last(drop_first(strip(name)))

\* split_high_level_step with the level ignored: every token splits
split_high_level_step_any_level(st, c, token) ==
    IF c = token
    THEN [results |-> Append(st.results, strip(st.curr_data)), level |-> st.level, curr_data |-> ""]
    ELSE [results |-> st.results,
          level |-> st.level + (IF c = "(" THEN 1 ELSE 0) - (IF c = ")" THEN 1 ELSE 0),
          curr_data |-> st.curr_data \o c]

\* the body of the for loop of split_high_level for the character c; st holds the
\* loop's variables results, level and curr_data
split_high_level_step(st, c, token) ==
    IF c = token /\ st.level = 0
    THEN [results |-> Append(st.results, strip(st.curr_data)), level |-> st.level, curr_data |-> ""]
    ELSE [results |-> st.results,
          level |-> st.level + (IF c = "(" THEN 1 ELSE 0) - (IF c = ")" THEN 1 ELSE 0),
          curr_data |-> st.curr_data \o c]

RECURSIVE split_high_level_loop(_, _, _, _, _)
\* the for loop of split_high_level over the characters lo..hi of data, in order
\* (the range is halved to keep the recursion shallow)
split_high_level_loop(st, data, token, lo, hi) ==
    IF lo > hi THEN st
    ELSE IF lo = hi THEN split_high_level_step(st, Ch(data, lo), token)
    ELSE LET mid  == (lo + hi) \div 2
             left == split_high_level_loop(st, data, token, lo, mid)
         IN  IF left.level = left.level
             THEN split_high_level_loop(left, data, token, mid + 1, hi)
             ELSE left

\* split_high_level(data, token)
split_high_level(data, token) ==
    LET after_loop(st) ==
            IF st.curr_data # "" THEN Append(st.results, strip(st.curr_data)) ELSE st.results
    IN  after_loop(split_high_level_loop([results |-> <<>>, level |-> 0, curr_data |-> ""],
                                         data, token, 1, Len(data)))

RECURSIVE DigitRun(_, _)
\* the length of the longest run of digits of s that starts at i (the regex \d* at i)
DigitRun(s, i) == IF IsDigit(Ch(s, i)) THEN 1 + DigitRun(s, i + 1) ELSE 0

RECURSIVE SpaceRun(_, _)
\* the length of the longest run of whitespace of s that starts at i (the regex \s* at i)
SpaceRun(s, i) == IF Ch(s, i) # "" /\ IsSpace(Ch(s, i)) THEN 1 + SpaceRun(s, i + 1) ELSE 0

\* convert_timestamp_to_datetime64: ^timestamp(?:\((\d+)\))?$ on the stripped input, ignoring case
convert_timestamp_to_datetime64(input_str) ==
    LET precision(rest, n) ==
            IF Head(rest) = "(" /\ n >= 1 /\ From(rest, n + 2) = ")"
            THEN Ok("DateTime64(" \o SubSeq(rest, 2, n + 1) \o ")")
            ELSE Raise("ValueError: Invalid input string format")
        suffix(rest) == IF rest = "" THEN Ok("DateTime64") ELSE precision(rest, DigitRun(rest, 2))
        match(t) ==
            IF lower(SubSeq(t, 1, 9)) # "timestamp"
            THEN Raise("ValueError: Invalid input string format")
            ELSE suffix(From(t, 10))
    IN  match(strip(input_str))

\* whether numeric\((\d+)\s*,\s*(\d+)\) matches s at position i, and its two groups
NumericMatchAt(s, i) ==
    LET matched(p1, n1, p2, p3, n2) ==
            /\ i + 7 <= Len(s)
            /\ SubSeq(s, i, i + 7) = "numeric("
            /\ n1 >= 1
            /\ Ch(s, p2) = ","
            /\ n2 >= 1
            /\ Ch(s, p3 + n2) = ")"
        groups(p1, n1, p2, p3, n2) ==
            IF matched(p1, n1, p2, p3, n2)
            THEN [ok |-> TRUE, precision |-> SubSeq(s, p1, p1 + n1 - 1), scale |-> SubSeq(s, p3, p3 + n2 - 1)]
            ELSE [ok |-> FALSE, precision |-> "", scale |-> ""]
        second(p1, n1, p2, p3) == groups(p1, n1, p2, p3, DigitRun(s, p3))
        comma(p1, n1, p2) == second(p1, n1, p2, p2 + 1 + SpaceRun(s, p2 + 1))
        first(p1, n1) == comma(p1, n1, p1 + n1 + SpaceRun(s, p1 + n1))
    IN  first(i + 8, DigitRun(s, i + 8))

\* re.search of the numeric pattern: the leftmost match
NumericSearch(s) ==
    LET leftmost(hits) ==
            IF hits = {} THEN [ok |-> FALSE, precision |-> "", scale |-> ""]
            ELSE NumericMatchAt(s, Min(hits))
    IN  leftmost({i \in 1..Len(s) : NumericMatchAt(s, i).ok})

RECURSIVE StripQuotesAll(_)
\* each piece stripped of whitespace and of its enclosing single quotes
StripQuotesAll(parts) ==
    LET drop_first(piece) == IF startswith(piece, SQ) THEN From(piece, 2) ELSE piece
        drop_last(piece) == IF endswith(piece, SQ) THEN SubSeq(piece, 1, Len(piece) - 1) ELSE piece
    IN  IF parts = <<>> THEN <<>>
        ELSE <<drop_last(drop_first(strip(Head(parts))))>> \o StripQuotesAll(Tail(parts))

\* parse_mysql_enum (enum.py): the ordered labels of an enum(...) or set(...) declaration
parse_mysql_enum(mysql_type) ==
    LET labels(inner) == IF inner = "" THEN <<>> ELSE StripQuotesAll(split_on(inner, ",", 1))
        between(open) ==
            IF open > 0 /\ endswith(mysql_type, ")")
            THEN SubSeq(mysql_type, open + 1, Len(mysql_type) - 1) ELSE ""
    IN  labels(between(find(mysql_type, "(")))

RECURSIVE EnumItems(_, _)
\* the item (quoted lower-cased label) = (idx + 1) of each label, idx counted from 0
EnumItems(enum_values, idx) ==
    IF enum_values = <<>> THEN <<>>
    ELSE <<SQ \o lower(Head(enum_values)) \o SQ \o " = " \o str_of(idx + 1)>>
         \o EnumItems(Tail(enum_values), idx + 1)

(***************************************************************************)
(* MysqlToClickhouseConverter: the type mapper                             *)
(***************************************************************************)

\* the numeric branch of convert_type
convert_numeric(mysql_type, is_unsigned) ==
    LET decimal(precision, scale) == "Decimal(" \o str_of(precision) \o ", " \o str_of(scale) \o ")"
        pick(precision, scale) ==
            IF scale = 0
            THEN IF is_unsigned
                 THEN (IF precision <= 9 THEN Ok("UInt32")
                       ELSE IF precision <= 18 THEN Ok("UInt64") ELSE Ok(decimal(precision, scale)))
                 ELSE (IF precision <= 9 THEN Ok("Int32")
                       ELSE IF precision <= 18 THEN Ok("Int64") ELSE Ok(decimal(precision, scale)))
            ELSE Ok(decimal(precision, scale))
        parse(parens, match) ==
            IF parens /\ ~match.ok
            THEN Raise("ValueError: Invalid numeric type definition: " \o mysql_type)
            ELSE pick(IF parens THEN int_of(match.precision, 0) ELSE 10,
                      IF parens THEN int_of(match.scale, 0) ELSE 0)
    IN  parse(contains(mysql_type, "(") /\ contains(mysql_type, ")"), NumericSearch(mysql_type))

\* the enum branch of convert_type
convert_enum(mysql_type) ==
    LET declare(enum_values, ch_enum_values) ==
            IF Len(enum_values) <= 127
            THEN Ok("Enum8(" \o ch_enum_values \o ")")
            ELSE Ok("Enum16(" \o ch_enum_values \o ")")
        items(enum_values) == declare(enum_values, join(", ", EnumItems(enum_values, 0)))
    IN  items(parse_mysql_enum(mysql_type))

\* convert_type(mysql_type, parameters): the first rule that applies, in the order of the source
convert_type(mysql_type, parameters) ==
    LET is_unsigned == contains(lower(parameters), "unsigned")
        has(p) == contains(mysql_type, p)
        int(signed, unsigned) == IF is_unsigned THEN Ok(unsigned) ELSE Ok(signed)
    IN  IF mysql_type \in DOMAIN types_mapping THEN Ok(types_mapping[mysql_type])
        ELSE IF mysql_type = "point" THEN Ok("Tuple(x Float32, y Float32)")
        ELSE IF startswith(mysql_type, "numeric") THEN convert_numeric(mysql_type, is_unsigned)
        ELSE IF mysql_type = "int" THEN int("Int32", "UInt32")
        ELSE IF mysql_type = "integer" THEN int("Int32", "UInt32")
        ELSE IF mysql_type = "bigint" THEN int("Int64", "UInt64")
        ELSE IF mysql_type = "double" THEN Ok("Float64")
        ELSE IF mysql_type = "real" THEN Ok("Float64")
        ELSE IF mysql_type = "float" THEN Ok("Float32")
        ELSE IF mysql_type = "date" THEN Ok("Date32")
        ELSE IF mysql_type = "tinyint(1)" THEN Ok("Bool")
        ELSE IF mysql_type = "bit(1)" THEN Ok("Bool")
        ELSE IF mysql_type = "bool" THEN Ok("Bool")
        ELSE IF has("smallint") THEN int("Int16", "UInt16")
        ELSE IF has("tinyint") THEN int("Int8", "UInt8")
        ELSE IF has("mediumint") THEN int("Int32", "UInt32")
        ELSE IF has("datetime") THEN Ok(replace(mysql_type, "datetime", "DateTime64"))
        ELSE IF has("longtext") THEN Ok("String")
        ELSE IF has("varchar") THEN Ok("String")
        ELSE IF startswith(mysql_type, "enum") THEN convert_enum(mysql_type)
        ELSE IF has("text") THEN Ok("String")
        ELSE IF has("blob") THEN Ok("String")
        ELSE IF has("char") THEN Ok("String")
        ELSE IF has("json") THEN Ok("String")
        ELSE IF has("decimal") THEN Ok("Float64")
        ELSE IF has("float") THEN Ok("Float32")
        ELSE IF has("double") THEN Ok("Float64")
        ELSE IF has("bigint") THEN int("Int64", "UInt64")
        ELSE IF has("integer") \/ has("int(") THEN int("Int32", "UInt32")
        ELSE IF has("real") THEN Ok("Float64")
        ELSE IF startswith(mysql_type, "timestamp") THEN convert_timestamp_to_datetime64(mysql_type)
        ELSE IF startswith(mysql_type, "time") THEN Ok("String")
        ELSE IF has("varbinary") THEN Ok("String")
        ELSE IF has("binary") THEN Ok("String")
        ELSE IF has("set(") THEN Ok("String")
        ELSE Raise("unknown mysql type \"" \o mysql_type \o "\"")

\* convert_field_type without the test for a Tuple: nullability follows the parameters alone
convert_field_type_by_parameters(mysql_type, mysql_parameters) ==
    LET wrap(clickhouse_type, not_null) ==
            IF ~IsOk(clickhouse_type) THEN clickhouse_type
            ELSE IF ~not_null
                 THEN Ok("Nullable(" \o clickhouse_type.val \o ")")
                 ELSE clickhouse_type
    IN  wrap(convert_type(lower(mysql_type), lower(mysql_parameters)),
             contains(lower(mysql_parameters), "not null"))

\* convert_field_type(mysql_type, mysql_parameters)
convert_field_type(mysql_type, mysql_parameters) ==
    LET wrap(clickhouse_type, not_null) ==
            IF ~IsOk(clickhouse_type) THEN clickhouse_type
            ELSE IF ~(IF contains(clickhouse_type.val, "Tuple") THEN TRUE ELSE not_null)
                 THEN Ok("Nullable(" \o clickhouse_type.val \o ")")
                 ELSE clickhouse_type
    IN  wrap(convert_type(lower(mysql_type), lower(mysql_parameters)),
             contains(lower(mysql_parameters), "not null"))

(***************************************************************************)
(* TableField and TableStructure (table_structure.py)                      *)
(***************************************************************************)

\* TableField(name=..., field_type=...): parameters and additional_data take their defaults
TableField(name, field_type) ==
    [name |-> name, field_type |-> field_type, parameters |-> "", additional_data |-> None]

RECURSIVE IndexOfName(_, _, _)
\* field_names.index(key), counted from 0; -1 when there is no such field
IndexOfName(fields, key, idx) ==
    IF fields = <<>> THEN -1
    ELSE IF Head(fields).name = key THEN idx
         ELSE IndexOfName(Tail(fields), key, idx + 1)

\* TableStructure.preprocess: primary_key_ids recomputed from primary_keys and the field order
preprocess(structure) ==
    [structure EXCEPT !.primary_key_ids =
        [k \in 1..Len(structure.primary_keys) |-> IndexOfName(structure.fields, structure.primary_keys[k], 0)]]

\* TableStructure.add_field_first
add_field_first(structure, new_field) ==
    preprocess([structure EXCEPT !.fields = <<new_field>> \o @])

\* the position after the last field named after, 0 when there is none
InsertIndex(fields, after) ==
    IF \E i \in 1..Len(fields) : fields[i].name = after
    THEN CHOOSE i \in 1..Len(fields) :
            /\ fields[i].name = after
            /\ \A j \in (i + 1)..Len(fields) : fields[j].name # after
    ELSE 0

\* TableStructure.add_field_after: the outcome, with the new structure as its value
add_field_after(structure, new_field, after) ==
    LET insert(idx_to_insert) ==
            IF idx_to_insert = 0 THEN Raise("field after not found: " \o after)
            ELSE Ok(preprocess([structure EXCEPT !.fields =
                        SubSeq(@, 1, idx_to_insert) \o <<new_field>> \o SubSeq(@, idx_to_insert + 1, Len(@))]))
    IN  insert(InsertIndex(structure.fields, after))

(***************************************************************************)
(* The tokenizer of a column definition                                    *)
(***************************************************************************)

DQ == "\""
BACKSLASH == "\\"

\* the length of the longest run from i of characters of s that are not in stop
RunWhile(s, i, stop) == NextIn(s, i, stop) - i

RECURSIVE WordRun(_, _)
\* the regex \w+ at i: the length of the run of word characters
WordRun(s, i) == IF IsWord(Ch(s, i)) THEN 1 + WordRun(s, i + 1) ELSE 0

\* the optional group (?:\([^)]*\))? after position e: the last position of the token
WithParens(s, e) ==
    LET closed(n) == IF Ch(s, e + 1) = "(" /\ Ch(s, e + 2 + n) = ")" THEN e + 2 + n ELSE e
    IN  closed(RunWhile(s, e + 2, {")"}))

RECURSIVE QuotedEnd(_, _, _)
\* the regex (?:\\q|[^q])*q from j: the position of the closing quote the greedy,
\* backtracking match ends at, 0 when there is no match
QuotedEnd(s, j, q) ==
    IF j > Len(s) THEN 0
    ELSE LET viaEscape == IF Ch(s, j) = BACKSLASH /\ Ch(s, j + 1) = q THEN QuotedEnd(s, j + 2, q) ELSE 0
             viaChar == IF Ch(s, j) # q THEN QuotedEnd(s, j + 1, q) ELSE 0
         IN  IF viaEscape > 0 THEN viaEscape
             ELSE IF viaChar > 0 THEN viaChar
             ELSE IF Ch(s, j) = q THEN j ELSE 0

\* token_pattern matched at i: the last position of the token, 0 when nothing matches at i
MatchToken(s, i) ==
    LET c == Ch(s, i)
        or_else(e, next) == IF e > 0 THEN e ELSE next
        closed(nBq) == IF c = BQ /\ nBq >= 1 /\ Ch(s, i + 1 + nBq) = BQ
                       THEN WithParens(s, i + 1 + nBq) ELSE 0
        backquoted == closed(RunWhile(s, i + 1, {BQ}))
        word == IF IsWord(c) THEN WithParens(s, i + WordRun(s, i) - 1) ELSE 0
        single == IF c = SQ THEN QuotedEnd(s, i + 1, SQ) ELSE 0
        double == IF c = DQ THEN QuotedEnd(s, i + 1, DQ) ELSE 0
        fallback == IF c # "" /\ ~IsSpace(c) THEN i + RunWhile(s, i, Whitespace) - 1 ELSE 0
    IN  or_else(backquoted, or_else(word, or_else(single, or_else(double, fallback))))

RECURSIVE findall(_, _)
\* token_pattern.findall(sql_line), scanning from i
findall(s, i) ==
    LET token(e) ==
            IF e = 0 THEN findall(s, i + 1)
            ELSE <<SubSeq(s, i, e)>> \o findall(s, e + 1)
    IN  IF i > Len(s) THEN <<>> ELSE token(MatchToken(s, i))

constraint_keywords ==
    {"DEFAULT", "NOT", "NULL", "AUTO_INCREMENT", "PRIMARY", "UNIQUE",
     "COMMENT", "COLLATE", "REFERENCES", "ON", "CHECK", "CONSTRAINT",
     "AFTER", "BEFORE", "GENERATED", "VIRTUAL", "STORED", "FIRST",
     "ALWAYS", "AS", "IDENTITY", "INVISIBLE", "PERSISTED"}

RECURSIVE TypeTokenCount(_, _)
\* the while loop of the tokenizer: how many tokens from position i belong to the type
TypeTokenCount(tokens, i) ==
    IF i <= Len(tokens) /\ upper(tokens[i]) \notin constraint_keywords
    THEN 1 + TypeTokenCount(tokens, i + 1) ELSE 0

\* _tokenize_alter_query(sql_line): [column name, merged type] + the remaining tokens
tokenize_alter_query(sql_line) ==
    LET assemble(tokens, merged_type, param_tokens) ==
            IF tokens = <<>> THEN tokens
            ELSE IF merged_type # "" THEN <<tokens[1], merged_type>> \o param_tokens
            ELSE <<tokens[1]>> \o param_tokens
        merge(tokens, n) ==
            assemble(tokens, join(" ", SubSeq(tokens, 2, 1 + n)), SubSeq(tokens, 2 + n, Len(tokens)))
        type_of(tokens) == merge(tokens, TypeTokenCount(tokens, 2))
    IN  type_of(findall(sql_line, 1))

(***************************************************************************)
(* The ALTER TABLE translator                                              *)
(*                                                                         *)
(* Within one call the translator works on a machine m: m.ts is            *)
(* tables_structure, mutated in place sub-operation by sub-operation,      *)
(* m.executed the destination DDL executed so far, and m.err the exception *)
(* that ended the call ("" while none was raised).  What an exception      *)
(* leaves in m.ts is what the caller finds in tables_structure.            *)
(***************************************************************************)

Failed(m, e) == [m EXCEPT !.err = e]
Executed(m, query) == [m EXCEPT !.executed = Append(@, query)]

\* db_replicator.database and db_replicator.target_database
database == "shop"
target_database == "shop_ch"

\* config.is_database_matches and config.is_table_matches: the configured inclusion filters
IncludedDatabases == {"shop_ch"}
IncludedTables == {"t"}
is_database_matches(db_name) == db_name \in IncludedDatabases
is_table_matches(table_name) == table_name \in IncludedTables

\* __basic_validate_query
basic_validate_query(mysql_query) ==
    LET single(q) == IF find(q, ";") # 0 THEN Raise("multi-query statement not supported") ELSE Ok(q)
        drop_last(q) == IF endswith(q, ";") THEN SubSeq(q, 1, Len(q) - 1) ELSE q
    IN  single(drop_last(strip(mysql_query)))

\* get_db_and_table_name with the inclusion filters left out
get_db_and_table_name_unfiltered(token, db_name) ==
    LET named(db0, table_name) ==
            [err |-> "", db_name |-> IF db0 = database THEN target_database ELSE db0,
             table_name |-> table_name, matches_config |-> TRUE]
        unpack_parts(parts, dotted) ==
            named(strip_sql_name(IF dotted THEN parts[1] ELSE db_name),
                  strip_sql_name(IF dotted THEN parts[2] ELSE token))
    IN  unpack_parts(split_on(token, ".", 1), contains(token, "."))

\* get_db_and_table_name(token, db_name)
get_db_and_table_name(token, db_name) ==
    LET filtered(db1, table_name) ==
            [err |-> "", db_name |-> db1, table_name |-> table_name,
             matches_config |-> is_database_matches(db1) /\ is_table_matches(table_name)]
        named(db0, table_name) == filtered(IF db0 = database THEN target_database ELSE db0, table_name)
        unpack_parts(parts, dotted) ==
            IF dotted /\ Len(parts) # 2
            THEN [err |-> "ValueError: too many values to unpack", db_name |-> "", table_name |-> "",
                  matches_config |-> FALSE]
            ELSE named(strip_sql_name(IF dotted THEN parts[1] ELSE db_name),
                       strip_sql_name(IF dotted THEN parts[2] ELSE token))
    IN  unpack_parts(split_on(token, ".", 1), contains(token, "."))

\* the destination statement of an added column (the end of __convert_alter_table_add_column)
add_column_query(db_name, table_name, column_name, column_type_ch, column_first, column_after) ==
    "ALTER TABLE " \o BQ \o db_name \o BQ \o "." \o BQ \o table_name \o BQ
    \o " ADD COLUMN " \o BQ \o column_name \o BQ \o " " \o column_type_ch
    \o (IF column_first THEN " FIRST" ELSE " AFTER " \o column_after)

\* add_column_to_structures with the ClickHouse field appended after the last ClickHouse
\* field, whatever AFTER names
add_column_appended_in_ch(m, table_name, column_name, column_type_mysql, column_type_ch, column_first, column_after_in) ==
    LET mysql_table_structure == m.ts[table_name].mysql
        ch_table_structure == m.ts[table_name].ch
        added(mysql_added, ch_added) ==
            IF ~IsOk(mysql_added) THEN Failed(m, mysql_added.err)
            ELSE IF ~IsOk(ch_added)
                 THEN Failed([m EXCEPT !.ts[table_name].mysql = mysql_added.val], ch_added.err)
            ELSE [m EXCEPT !.ts[table_name].mysql = mysql_added.val,
                           !.ts[table_name].ch = ch_added.val]
        after(last_name) ==
            added(add_field_after(mysql_table_structure, TableField(column_name, column_type_mysql),
                                  IF column_after_in = None THEN last_name ELSE column_after_in[1]),
                  add_field_after(ch_table_structure, TableField(column_name, column_type_ch), last_name))
    IN  IF column_first
        THEN [m EXCEPT !.ts[table_name].mysql =
                           add_field_first(@, TableField(column_name, column_type_mysql)),
                       !.ts[table_name].ch =
                           add_field_first(@, TableField(column_name, column_type_ch))]
        ELSE after(strip_sql_name(mysql_table_structure.fields[Len(mysql_table_structure.fields)].name))

\* add_column_to_structures with the default position resolved to the first field, not the last
add_column_after_first_field(m, table_name, column_name, column_type_mysql, column_type_ch, column_first, column_after_in) ==
    LET mysql_table_structure == m.ts[table_name].mysql
        ch_table_structure == m.ts[table_name].ch
        added(mysql_added, ch_added) ==
            IF ~IsOk(mysql_added) THEN Failed(m, mysql_added.err)
            ELSE IF ~IsOk(ch_added)
                 THEN Failed([m EXCEPT !.ts[table_name].mysql = mysql_added.val], ch_added.err)
            ELSE [m EXCEPT !.ts[table_name].mysql = mysql_added.val,
                           !.ts[table_name].ch = ch_added.val]
        after(column_after) ==
            added(add_field_after(mysql_table_structure, TableField(column_name, column_type_mysql), column_after),
                  add_field_after(ch_table_structure, TableField(column_name, column_type_ch), column_after))
    IN  IF column_first
        THEN [m EXCEPT !.ts[table_name].mysql =
                           add_field_first(@, TableField(column_name, column_type_mysql)),
                       !.ts[table_name].ch =
                           add_field_first(@, TableField(column_name, column_type_ch))]
        ELSE after(IF column_after_in = None
                   THEN strip_sql_name(mysql_table_structure.fields[1].name)
                   ELSE column_after_in[1])

\* the update of the two mirrors by __convert_alter_table_add_column, on the machine m:
\* the MySQL mirror first, then the ClickHouse mirror; column_after is None or Some(name)
add_column_to_structures(m, table_name, column_name, column_type_mysql, column_type_ch, column_first, column_after_in) ==
    LET mysql_table_structure == m.ts[table_name].mysql
        ch_table_structure == m.ts[table_name].ch
        added(mysql_added, ch_added) ==
            IF ~IsOk(mysql_added) THEN Failed(m, mysql_added.err)
            ELSE IF ~IsOk(ch_added)
                 THEN Failed([m EXCEPT !.ts[table_name].mysql = mysql_added.val], ch_added.err)
            ELSE [m EXCEPT !.ts[table_name].mysql = mysql_added.val,
                           !.ts[table_name].ch = ch_added.val]
        after(column_after) ==
            added(add_field_after(mysql_table_structure, TableField(column_name, column_type_mysql), column_after),
                  add_field_after(ch_table_structure, TableField(column_name, column_type_ch), column_after))
    IN  IF table_name \notin DOMAIN m.ts THEN Failed(m, "KeyError: " \o table_name)
        ELSE IF column_first
             THEN [m EXCEPT !.ts[table_name].mysql =
                                add_field_first(@, TableField(column_name, column_type_mysql)),
                            !.ts[table_name].ch =
                                add_field_first(@, TableField(column_name, column_type_ch))]
        ELSE IF column_after_in = None /\ mysql_table_structure.fields = <<>>
             THEN Failed(m, "IndexError: list index out of range")
        ELSE after(IF column_after_in = None
                   THEN strip_sql_name(mysql_table_structure.fields[Len(mysql_table_structure.fields)].name)
                   ELSE column_after_in[1])

\* __convert_alter_table_add_column after the tokenization (lines 604-649): tokens0 is
\* what _tokenize_alter_query returned
add_column_parsed(m, db_name, table_name, tokens0) ==
    LET n0 == Len(tokens0)
        has_after == lower(tokens0[n0 - 1]) = "after"
        tokens == IF has_after THEN SubSeq(tokens0, 1, n0 - 2) ELSE tokens0
        column_first == ~has_after /\ lower(tokens0[n0]) = "first"
        column_after == IF has_after THEN Some(strip_sql_name(tokens0[n0])) ELSE None
        column_name == strip_sql_name(tokens[1])
        last_name == strip_sql_name(m.ts[table_name].mysql.fields[Len(m.ts[table_name].mysql.fields)].name)
        execute(updated, column_type_ch) ==
            IF updated.err # "" THEN updated
            ELSE Executed(updated,
                          add_column_query(db_name, table_name, column_name, column_type_ch, column_first,
                                           IF has_after THEN column_after[1] ELSE last_name))
        update(column_type_ch) ==
            IF ~IsOk(column_type_ch) THEN Failed(m, column_type_ch.err)
            ELSE execute(add_column_to_structures(m, table_name, column_name, tokens[2],
                                                  column_type_ch.val, column_first, column_after),
                         column_type_ch.val)
    IN  IF n0 < 2 THEN Failed(m, "wrong tokens count")
        ELSE IF Len(tokens) < 2 THEN Failed(m, "wrong tokens count")
        ELSE update(convert_field_type(tokens[2], join(" ", SubSeq(tokens, 3, Len(tokens)))))

\* __convert_alter_table_add_column(db_name, table_name, tokens), on the machine m
convert_alter_table_add_column(m, db_name, table_name, tokens_in) ==
    add_column_parsed(m, db_name, table_name, tokenize_alter_query(join(" ", tokens_in)))

\* the positions of the fields named name
PositionsOf(fields, name) == {i \in 1..Len(fields) : fields[i].name = name}

\* TableStructure.remove_field: the first field of that name removed
remove_field(structure, field_name) ==
    LET remove(at) ==
            IF at = {} THEN Raise("field not found: " \o field_name)
            ELSE Ok(preprocess([structure EXCEPT !.fields =
                        SubSeq(@, 1, Min(at) - 1) \o SubSeq(@, Min(at) + 1, Len(@))]))
    IN  remove(PositionsOf(structure.fields, field_name))

\* TableStructure.update_field: the first field named old_name replaced, in place, by new_field
update_field(structure, old_name, new_field) ==
    LET update(at) ==
            IF at = {} THEN Raise("field not found: " \o old_name)
            ELSE Ok(preprocess([structure EXCEPT !.fields[Min(at)] = new_field]))
    IN  update(PositionsOf(structure.fields, old_name))

\* __convert_alter_table_drop_column: the column leaves both mirrors, then DROP COLUMN is executed
convert_alter_table_drop_column(m, db_name, table_name, tokens) ==
    LET dropped(column_name, mysql_dropped, ch_dropped) ==
            IF ~IsOk(mysql_dropped) THEN Failed(m, mysql_dropped.err)
            ELSE IF ~IsOk(ch_dropped)
                 THEN Failed([m EXCEPT !.ts[table_name].mysql = mysql_dropped.val], ch_dropped.err)
            ELSE Executed([m EXCEPT !.ts[table_name].mysql = mysql_dropped.val,
                                    !.ts[table_name].ch = ch_dropped.val],
                          "ALTER TABLE " \o BQ \o db_name \o BQ \o "." \o BQ \o table_name \o BQ
                          \o " DROP COLUMN " \o BQ \o column_name \o BQ)
        drop(column_name) ==
            dropped(column_name, remove_field(m.ts[table_name].mysql, column_name),
                    remove_field(m.ts[table_name].ch, column_name))
    IN  IF Len(tokens) # 1 THEN Failed(m, "wrong tokens count")
        ELSE IF table_name \notin DOMAIN m.ts THEN Failed(m, "KeyError: " \o table_name)
        ELSE drop(strip_sql_name(tokens[1]))

\* the retyping (and renaming) shared by MODIFY and CHANGE: both mirrors get the new field
\* at the position of the old one, then the destination statement is executed
retype_column(m, table_name, old_name, new_name, column_type_mysql, parameters, query_head) ==
    LET updated(column_type_ch, mysql_updated, ch_updated) ==
            IF ~IsOk(mysql_updated) THEN Failed(m, mysql_updated.err)
            ELSE IF ~IsOk(ch_updated)
                 THEN Failed([m EXCEPT !.ts[table_name].mysql = mysql_updated.val], ch_updated.err)
            ELSE Executed([m EXCEPT !.ts[table_name].mysql = mysql_updated.val,
                                    !.ts[table_name].ch = ch_updated.val],
                          query_head \o " " \o column_type_ch)
        retype(column_type_ch) ==
            IF ~IsOk(column_type_ch) THEN Failed(m, column_type_ch.err)
            ELSE IF table_name \notin DOMAIN m.ts THEN Failed(m, "KeyError: " \o table_name)
            ELSE updated(column_type_ch.val,
                         update_field(m.ts[table_name].mysql, old_name, TableField(new_name, column_type_mysql)),
                         update_field(m.ts[table_name].ch, old_name, TableField(new_name, column_type_ch.val)))
    IN  retype(convert_field_type(column_type_mysql, parameters))

\* __convert_alter_table_modify_column
convert_alter_table_modify_column(m, db_name, table_name, tokens) ==
    IF Len(tokens) < 2 THEN Failed(m, "wrong tokens count")
    ELSE retype_column(m, table_name, strip_sql_name(tokens[1]), strip_sql_name(tokens[1]),
                       tokens[2], join(" ", SubSeq(tokens, 3, Len(tokens))),
                       "ALTER TABLE " \o BQ \o db_name \o BQ \o "." \o BQ \o table_name \o BQ
                       \o " MODIFY COLUMN " \o BQ \o strip_sql_name(tokens[1]) \o BQ)

\* __convert_alter_table_change_column
convert_alter_table_change_column(m, db_name, table_name, tokens) ==
    IF Len(tokens) < 3 THEN Failed(m, "wrong tokens count")
    ELSE retype_column(m, table_name, strip_sql_name(tokens[1]), strip_sql_name(tokens[2]),
                       tokens[3], join(" ", SubSeq(tokens, 4, Len(tokens))),
                       "ALTER TABLE " \o BQ \o db_name \o BQ \o "." \o BQ \o table_name \o BQ
                       \o " CHANGE COLUMN " \o BQ \o strip_sql_name(tokens[1]) \o BQ
                       \o " " \o BQ \o strip_sql_name(tokens[2]) \o BQ)

\* the keywords after ADD or DROP that make the sub-operation one to skip
SkippedTargets == {"constraint", "index", "foreign", "unique"}

\* the dispatch of one sub-operation (lines 512-539): op_name is its lower-cased keyword,
\* tokens what follows the keyword and the optional COLUMN
dispatch_alter_operation(m, db_name, table_name, subquery, op_name, tokens, mysql_query) ==
    IF op_name = "add"
    THEN IF tokens = <<>> THEN Failed(m, "IndexError: list index out of range")
         ELSE IF lower(tokens[1]) \in SkippedTargets THEN m
         ELSE convert_alter_table_add_column(m, db_name, table_name, tokens)
    ELSE IF op_name = "drop"
         THEN IF tokens = <<>> THEN Failed(m, "IndexError: list index out of range")
              ELSE IF lower(tokens[1]) \in SkippedTargets THEN m
              ELSE convert_alter_table_drop_column(m, db_name, table_name, tokens)
    ELSE IF op_name = "modify" THEN convert_alter_table_modify_column(m, db_name, table_name, tokens)
    ELSE IF op_name = "alter" THEN m
    ELSE IF op_name = "auto_increment" THEN m
    ELSE IF op_name = "change" THEN convert_alter_table_change_column(m, db_name, table_name, tokens)
    ELSE Failed(m, "operation " \o op_name \o " not implement, query: " \o subquery
                   \o ", full query: " \o mysql_query)

\* the body of the for loop of convert_alter_query: one sub-operation applied to the machine
convert_alter_subquery(m, db_name, table_name, subquery_in, mysql_query) ==
    LET subquery == strip(subquery_in)
        tokens0 == split(subquery)
        tokens1 == Tail(tokens0)
    IN  IF tokens0 = <<>> THEN Failed(m, "IndexError: list index out of range")
        ELSE IF tokens1 = <<>> THEN Failed(m, "IndexError: list index out of range")
        ELSE dispatch_alter_operation(m, db_name, table_name, subquery, lower(tokens0[1]),
                                      IF lower(tokens1[1]) = "column" THEN Tail(tokens1) ELSE tokens1,
                                      mysql_query)

RECURSIVE convert_alter_subqueries(_, _, _, _, _)
\* the for loop of convert_alter_query: it ends at the first sub-operation that raises
convert_alter_subqueries(m, db_name, table_name, subqueries, mysql_query) ==
    IF subqueries = <<>> \/ m.err # "" THEN m
    ELSE convert_alter_subqueries(
             convert_alter_subquery(m, db_name, table_name, Head(subqueries), mysql_query),
             db_name, table_name, Tail(subqueries), mysql_query)

\* convert_alter_query(mysql_query, db_name), started on the machine m
convert_alter_query(m, mysql_query_in, db_name_in) ==
    LET validated == basic_validate_query(mysql_query_in)
        mysql_query == validated.val
        tokens == split(mysql_query)
        target == get_db_and_table_name(tokens[3], db_name_in)
    IN  IF ~IsOk(validated) THEN Failed(m, validated.err)
        ELSE IF Len(tokens) < 1 THEN Failed(m, "IndexError: list index out of range")
        ELSE IF lower(tokens[1]) # "alter" THEN Failed(m, "wrong query")
        ELSE IF Len(tokens) < 2 THEN Failed(m, "IndexError: list index out of range")
        ELSE IF lower(tokens[2]) # "table" THEN Failed(m, "wrong query")
        ELSE IF Len(tokens) < 3 THEN Failed(m, "IndexError: list index out of range")
        ELSE IF target.err # "" THEN Failed(m, target.err)
        ELSE IF ~target.matches_config THEN m
        ELSE convert_alter_subqueries(m, target.db_name, target.table_name,
                                      split_high_level(join(" ", SubSeq(tokens, 4, Len(tokens))), ","),
                                      mysql_query)

\* convert_table_structure(mysql_structure)
convert_table_structure(mysql_structure) ==
    LET converted(types) ==
            IF \E i \in 1..Len(types) : ~IsOk(types[i])
            THEN Raise(types[CHOOSE i \in 1..Len(types) :
                                ~IsOk(types[i]) /\ \A j \in 1..(i - 1) : IsOk(types[j])].err)
            ELSE Ok(preprocess([table_name |-> mysql_structure.table_name,
                                fields |-> [i \in 1..Len(types) |->
                                               TableField(mysql_structure.fields[i].name, types[i].val)],
                                primary_keys |-> mysql_structure.primary_keys,
                                primary_key_ids |-> <<>>]))
    IN  converted([i \in 1..Len(mysql_structure.fields) |->
                      convert_field_type(mysql_structure.fields[i].field_type,
                                         mysql_structure.fields[i].parameters)])

(***************************************************************************)
(* Python values of a row: None, int, str, bytes, set, timedelta, tuple    *)
(***************************************************************************)

\* an int is a sign and a magnitude; the magnitude is a sequence of limbs, the least
\* significant first, without a leading zero limb (Python ints have no width)
LimbBase == 65536

Value(type, neg, mag, text, members, items) ==
    [type |-> type, neg |-> neg, mag |-> mag, text |-> text, members |-> members, items |-> items]

PyNone == Value("NoneType", FALSE, <<>>, "", {}, <<>>)
PyInt(neg, mag) == Value("int", neg /\ mag # <<>>, mag, "", {}, <<>>)
PyStr(text) == Value("str", FALSE, <<>>, text, {}, <<>>)
PyBytes(text) == Value("bytes", FALSE, <<>>, text, {}, <<>>)
PySet(members) == Value("set", FALSE, <<>>, "", members, <<>>)
PyTimedelta(text) == Value("timedelta", FALSE, <<>>, text, {}, <<>>)
PyTuple(items) == Value("tuple", FALSE, <<>>, "", {}, items)
\* a float is held as the hexadecimal digits of its eight IEEE 754 bytes, the sign byte first
PyFloat(bits) == Value("float", FALSE, <<>>, bits, {}, <<>>)

\* the magnitude of a small number n >= 0
RECURSIVE Limbs(_)
Limbs(n) == IF n = 0 THEN <<>> ELSE <<n % LimbBase>> \o Limbs(n \div LimbBase)

\* the int n, for a small n
SmallInt(n) == IF n < 0 THEN PyInt(TRUE, Limbs(-n)) ELSE PyInt(FALSE, Limbs(n))

\* a magnitude without its leading zero limbs
RECURSIVE Normalized(_)
Normalized(mag) ==
    IF mag = <<>> THEN <<>>
    ELSE IF mag[Len(mag)] = 0 THEN Normalized(SubSeq(mag, 1, Len(mag) - 1)) ELSE mag

Limb(mag, i) == IF i <= Len(mag) THEN mag[i] ELSE 0

\* a < b, for magnitudes
MagLess(a, b) ==
    \/ Len(a) < Len(b)
    \/ /\ Len(a) = Len(b)
       /\ \E i \in 1..Len(a) : a[i] < b[i] /\ \A j \in (i + 1)..Len(a) : a[j] = b[j]

RECURSIVE MagAddFrom(_, _, _, _)
\* a + b from limb i on, with the carry of the limbs before
MagAddFrom(a, b, i, carry) ==
    IF i > Len(a) /\ i > Len(b)
    THEN (IF carry = 0 THEN <<>> ELSE <<carry>>)
    ELSE <<(Limb(a, i) + Limb(b, i) + carry) % LimbBase>>
         \o MagAddFrom(a, b, i + 1, (Limb(a, i) + Limb(b, i) + carry) \div LimbBase)

MagAdd(a, b) == MagAddFrom(a, b, 1, 0)

RECURSIVE MagSubFrom(_, _, _, _)
\* a - b from limb i on, for a >= b, with the borrow of the limbs before
MagSubFrom(a, b, i, borrow) ==
    IF i > Len(a) THEN <<>>
    ELSE <<(Limb(a, i) - Limb(b, i) - borrow + LimbBase) % LimbBase>>
         \o MagSubFrom(a, b, i + 1, IF Limb(a, i) - Limb(b, i) - borrow < 0 THEN 1 ELSE 0)

MagSub(a, b) == Normalized(MagSubFrom(a, b, 1, 0))

\* x + y, for ints
int_add(x, y) ==
    IF x.neg = y.neg THEN PyInt(x.neg, MagAdd(x.mag, y.mag))
    ELSE IF MagLess(x.mag, y.mag) THEN PyInt(y.neg, MagSub(y.mag, x.mag))
    ELSE PyInt(x.neg, MagSub(x.mag, y.mag))

RECURSIVE MagDivTen(_, _)
\* the quotient and the remainder of mag by ten: the limbs are read from the most significant
MagDivTen(mag, rem) ==
    IF mag = <<>> THEN [quot |-> <<>>, rem |-> rem]
    ELSE LET top == rem * LimbBase + mag[Len(mag)]
             rest == MagDivTen(SubSeq(mag, 1, Len(mag) - 1), top % 10)
         IN  [quot |-> Append(rest.quot, top \div 10), rem |-> rest.rem]

RECURSIVE MagDigits(_)
\* the decimal digits of a magnitude
MagDigits(mag) ==
    IF mag = <<>> THEN ""
    ELSE LET d == MagDivTen(mag, 0)
         IN  MagDigits(Normalized(d.quot)) \o DigitChar[d.rem]

\* str(x), for an int
int_str(x) == IF x.mag = <<>> THEN "0" ELSE (IF x.neg THEN "-" ELSE "") \o MagDigits(x.mag)

\* value < 0: an int is compared, None and the other types are not ordered against an int
less_than_zero(value) ==
    IF value.type = "int" THEN Ok(value.neg)
    ELSE Raise("TypeError: '<' not supported between instances of '" \o value.type \o "' and 'int'")

\* the printable ASCII characters, in the order of their codes 32..126
Ascii ==
    " !" \o DQ \o "#$%&" \o SQ \o "()*+,-./0123456789:;<=>?@ABCDEFGHIJKLMNOPQRSTUVWXYZ["
    \o BACKSLASH \o "]^_" \o BQ \o "abcdefghijklmnopqrstuvwxyz{|}~"

HexDigits == "0123456789abcdef"

\* the value of the two hexadecimal digits at position i of hex
ByteAt(hex, i) == (find(HexDigits, Ch(hex, i)) - 1) * 16 + (find(HexDigits, Ch(hex, i + 1)) - 1)

\* the two hexadecimal digits of a byte
HexOf(byte) == Ch(HexDigits, byte \div 16 + 1) \o Ch(HexDigits, (byte % 16) + 1)

RECURSIVE encode(_)
\* str.encode(): the bytes of an ASCII text, two hexadecimal digits for each
encode(text) == IF text = "" THEN "" ELSE HexOf(find(Ascii, Head(text)) + 31) \o encode(Tail(text))

\* a bytes value is held as the hexadecimal digits of its bytes
BytesOf(text) == PyBytes(encode(text))

RECURSIVE decode_from(_, _)
\* the characters of the printable ASCII bytes of hex from position i on
decode_from(hex, i) ==
    IF i > Len(hex) THEN "" ELSE Ch(Ascii, ByteAt(hex, i) - 31) \o decode_from(hex, i + 2)

\* bytes.decode(charset) for the charsets that read ASCII as ASCII: a byte outside the
\* printable ASCII range is not decoded by the model
decode(value) ==
    IF \A i \in 1..(Len(value.text) \div 2) :
           ByteAt(value.text, 2 * i - 1) >= 32 /\ ByteAt(value.text, 2 * i - 1) <= 126
    THEN Ok(PyStr(decode_from(value.text, 1)))
    ELSE Raise("UnicodeDecodeError")

\* len(value) of Python, for the values of the model
py_len(value) ==
    IF value.type = "str" THEN Ok(Len(value.text))
    ELSE IF value.type = "bytes" THEN Ok(Len(value.text) \div 2)
    ELSE IF value.type = "set" THEN Ok(Cardinality(value.members))
    ELSE IF value.type = "tuple" THEN Ok(Len(value.items))
    ELSE Raise("TypeError: object of type '" \o value.type \o "' has no len()")

\* str(value): the rows of the model hold no set and no tuple where str() is applied
py_str(value) ==
    IF value.type = "NoneType" THEN "None"
    ELSE IF value.type = "int" THEN int_str(value)
    ELSE IF value.type = "bytes" THEN "b" \o SQ \o decode_from(value.text, 1) \o SQ
    ELSE value.text

\* json.dumps(convert_bytes(value)) for a value that is not a str
json_dumps(value) ==
    LET quoted(decoded) == IF IsOk(decoded) THEN Ok(PyStr(DQ \o decoded.val.text \o DQ)) ELSE decoded
    IN  IF value.type = "NoneType" THEN Ok(PyStr("null"))
        ELSE IF value.type = "int" THEN Ok(PyStr(int_str(value)))
        ELSE IF value.type = "bytes" THEN quoted(decode(value))
        ELSE Raise("TypeError: Object of type " \o value.type \o " is not JSON serializable")

\* uuid.UUID(text).bytes: the hyphens, braces and urn prefix go, 32 hexadecimal digits must remain
uuid_bytes(text) ==
    LET bytes(hex) ==
            IF Len(hex) # 32 THEN Raise("ValueError: badly formed hexadecimal UUID string")
            ELSE IF \E i \in 1..32 : find(HexDigits, Ch(hex, i)) = 0
                 THEN Raise("ValueError: badly formed hexadecimal UUID string")
            ELSE Ok(PyBytes(hex))
    IN  bytes(lower(replace(replace(replace(replace(replace(text, "urn:", ""), "uuid:", ""), "{", ""), "}", ""), "-", "")))

(***************************************************************************)
(* MysqlToClickhouseConverter: the transcoder of a row                     *)
(***************************************************************************)

RECURSIVE Reversed(_)
\* the bytes of hex in the opposite order
Reversed(hex) == IF hex = "" THEN "" ELSE Reversed(From(hex, 3)) \o SubSeq(hex, 1, 2)

\* struct.unpack(endian + 'I' or 'd', binary[from:from + size]): the bytes, the most significant first
unpack(hex, from, size, little) ==
    LET bytes == SubSeq(hex, 2 * from + 1, 2 * (from + size))
    IN  IF little THEN Reversed(bytes) ELSE bytes

\* the body of parse_mysql_point for a binary of 21 bytes (at == 0) or of 25 bytes (at == 4)
parse_wkb_point(hex, at) ==
    LET point(byte_order, little) ==
            IF byte_order \notin {0, 1} THEN Raise("ValueError: Invalid byte order in WKB POINT")
            ELSE IF unpack(hex, at + 1, 4, little) # "00000001" THEN Raise("ValueError: Not a WKB POINT type")
            ELSE Ok(PyTuple(<<PyFloat(unpack(hex, at + 5, 8, little)), PyFloat(unpack(hex, at + 13, 8, little))>>))
        ordered(byte_order) == point(byte_order, byte_order = 1)
    IN  ordered(ByteAt(hex, 2 * at + 1))

\* parse_mysql_point(binary)
parse_mysql_point(binary) ==
    LET sized(n) ==
            IF ~IsOk(n) THEN n
            ELSE IF n.val \notin {21, 25} THEN Raise("ValueError: Invalid binary length for WKB POINT")
            ELSE IF binary.type = "set" THEN Raise("TypeError: 'set' object is not subscriptable")
            ELSE IF binary.type # "bytes" THEN Raise("ValueError: Invalid byte order in WKB POINT")
            ELSE parse_wkb_point(binary.text, IF n.val = 21 THEN 0 ELSE 4)
    IN  IF binary.type = "NoneType" THEN Ok(PyTuple(<<SmallInt(0), SmallInt(0)>>))
        ELSE sized(py_len(binary))

\* EnumConverter.convert_mysql_to_clickhouse_enum (enum.py): the 1-based ordinal of an index
\* or of a label among the labels of the field; None stays None
convert_mysql_to_clickhouse_enum(enum_value, enum_values, field_name) ==
    LET ordinal(labels, at) ==
            IF enum_value.type = "int" /\ ~enum_value.neg /\ Len(enum_value.mag) = 1
               /\ Limb(enum_value.mag, 1) <= Len(labels)
            THEN Ok(enum_value)
            ELSE IF enum_value.type = "str" /\ at # {} THEN Ok(SmallInt(Min(at)))
            ELSE Raise("ValueError: enum value of field " \o field_name \o " is not one of its labels")
        among(labels) ==
            ordinal(labels, {i \in 1..Len(labels) : lower(labels[i]) = lower(enum_value.text)})
    IN  IF enum_value.type = "NoneType" THEN Ok(enum_value)
        ELSE among(IF enum_values = None THEN <<>> ELSE enum_values[1])

\* lines 397-398: a time value of a String column becomes its text
time_to_str(value, mysql_field_type, clickhouse_field_type) ==
    IF startswith(mysql_field_type, "time") /\ contains(clickhouse_field_type, "String")
    THEN Ok(PyStr(py_str(value)))
    ELSE Ok(value)

\* lines 399-401: a json value that is not a str is dumped
json_to_str(value, mysql_field_type, clickhouse_field_type) ==
    IF mysql_field_type = "json" /\ contains(clickhouse_field_type, "String") /\ value.type # "str"
    THEN json_dumps(value)
    ELSE Ok(value)

\* lines 404-408: a value of 36 characters of a UUID column becomes the 16 bytes of the UUID
uuid_to_bytes(value, clickhouse_field_type) ==
    LET packed(text) ==
            IF ~IsOk(text) THEN text
            ELSE IF text.val.type # "str" THEN Raise("AttributeError: 'set' object has no attribute 'replace'")
            ELSE uuid_bytes(text.val.text)
        sized(n) ==
            IF ~IsOk(n) THEN n
            ELSE IF n.val # 36 THEN Ok(value)
            ELSE packed(IF value.type = "bytes" THEN decode(value) ELSE Ok(value))
    IN  IF ~contains(clickhouse_field_type, "UUID") THEN Ok(value)
        ELSE sized(py_len(value))

\* the moduli of lines 411-419: 65536, 256, 16777216, 4294967296, 18446744073709551616
Modulus16 == PyInt(FALSE, <<0, 1>>)
Modulus8 == PyInt(FALSE, <<256>>)
Modulus24 == PyInt(FALSE, <<0, 256>>)
Modulus32 == PyInt(FALSE, <<0, 0, 1>>)
Modulus64 == PyInt(FALSE, <<0, 0, 0, 0, 1>>)

\* one of the five statements of lines 410-419: if applies and value < 0: value = modulus + value
add_modulus_if_negative(value, applies, modulus) ==
    LET corrected(negative) ==
            IF ~IsOk(negative) THEN negative
            ELSE IF negative.val THEN Ok(int_add(modulus, value))
            ELSE Ok(value)
    IN  IF ~applies THEN Ok(value) ELSE corrected(less_than_zero(value))

\* unsigned_corrections with the moduli of UInt16 and UInt8 exchanged
unsigned_corrections_swapped(value, mysql_field_type, clickhouse_field_type) ==
    LET uint8(after) ==
            IF ~IsOk(after) THEN after
            ELSE add_modulus_if_negative(after.val, contains(clickhouse_field_type, "UInt8"), Modulus16)
        mediumint(after) ==
            IF ~IsOk(after) THEN after
            ELSE add_modulus_if_negative(after.val, contains(lower(mysql_field_type), "mediumint"), Modulus24)
        uint32(after) ==
            IF ~IsOk(after) THEN after
            ELSE add_modulus_if_negative(after.val, contains(clickhouse_field_type, "UInt32"), Modulus32)
        uint64(after) ==
            IF ~IsOk(after) THEN after
            ELSE add_modulus_if_negative(after.val, contains(clickhouse_field_type, "UInt64"), Modulus64)
    IN  uint64(uint32(mediumint(uint8(
            add_modulus_if_negative(value, contains(clickhouse_field_type, "UInt16"), Modulus8)))))

\* lines 410-419: the five corrections, one after the other, each on the value the one before left
unsigned_corrections(value, mysql_field_type, clickhouse_field_type) ==
    LET uint8(after) ==
            IF ~IsOk(after) THEN after
            ELSE add_modulus_if_negative(after.val, contains(clickhouse_field_type, "UInt8"), Modulus8)
        mediumint(after) ==
            IF ~IsOk(after) THEN after
            ELSE add_modulus_if_negative(after.val, contains(lower(mysql_field_type), "mediumint"), Modulus24)
        uint32(after) ==
            IF ~IsOk(after) THEN after
            ELSE add_modulus_if_negative(after.val, contains(clickhouse_field_type, "UInt32"), Modulus32)
        uint64(after) ==
            IF ~IsOk(after) THEN after
            ELSE add_modulus_if_negative(after.val, contains(clickhouse_field_type, "UInt64"), Modulus64)
    IN  uint64(uint32(mediumint(uint8(
            add_modulus_if_negative(value, contains(clickhouse_field_type, "UInt16"), Modulus16)))))

\* lines 421-426: the bytes of a text column are decoded with the charset of the table
decode_text(value, mysql_field_type, clickhouse_field_type, mysql_structure) ==
    IF /\ contains(clickhouse_field_type, "String")
       /\ contains(mysql_field_type, "text") \/ contains(mysql_field_type, "char")
       /\ value.type = "bytes"
    THEN decode(value)
    ELSE Ok(value)

\* bit_is_set with the bits counted from 1: the test of bit_mask & (1 << (idx + 1))
bit_is_set_from_one(bit_mask, idx) ==
    LET bit(mag) == (Limb(mag, (idx + 1) \div 16 + 1) \div (2 ^ ((idx + 1) % 16))) % 2
    IN  IF bit_mask.neg THEN bit(MagSub(bit_mask.mag, <<1>>)) = 0 ELSE bit(bit_mask.mag) = 1

\* bit_mask & (1 << idx) != 0: a negative int has the bits of its two's complement
bit_is_set(bit_mask, idx) ==
    LET bit(mag) == (Limb(mag, idx \div 16 + 1) \div (2 ^ (idx % 16))) % 2
    IN  IF bit_mask.neg THEN bit(MagSub(bit_mask.mag, <<1>>)) = 0 ELSE bit(bit_mask.mag) = 1

RECURSIVE Selected(_, _, _)
\* [val for idx, val in enumerate(set_values) if idx in kept], idx counted from 0
Selected(set_values, idx, kept) ==
    IF set_values = <<>> THEN <<>>
    ELSE (IF idx \in kept THEN <<Head(set_values)>> ELSE <<>>)
         \o Selected(Tail(set_values), idx + 1, kept)

RECURSIVE Characters(_)
Characters(text) == IF text = "" THEN <<>> ELSE <<Head(text)>> \o Characters(Tail(text))

\* lines 428-441: the value of a set(...) column becomes the comma-joined labels;
\* set_values is the additional_data of the field, None or Some(labels)
expand_set(value, mysql_field_type, set_values) ==
    LET labels == set_values[1]
        positions == 0..(Len(labels) - 1)
    IN  IF ~contains(mysql_field_type, "set(") THEN Ok(value)
        ELSE IF value.type \in {"int", "set"} /\ set_values = None
             THEN Raise("TypeError: 'NoneType' object is not iterable")
        ELSE IF value.type = "int"
             THEN Ok(PyStr(join(",", Selected(labels, 0, {idx \in positions : bit_is_set(value, idx)}))))
        ELSE IF value.type = "set"
             THEN Ok(PyStr(join(",", Selected(labels, 0, {idx \in positions : labels[idx + 1] \in value.members}))))
        ELSE IF value.type = "str" THEN Ok(PyStr(join(",", Characters(value.text))))
        ELSE IF value.type = "bytes" /\ value.text = "" THEN Ok(PyStr(""))
        ELSE IF value.type = "bytes" THEN Raise("TypeError: sequence item 0: expected str instance, int found")
        ELSE Raise("TypeError: can only join an iterable")

\* lines 403-441: the steps that a value that is not None goes through
convert_not_none(value, mysql_field_type, clickhouse_field_type, mysql_structure, set_values) ==
    LET expanded(decoded) ==
            IF ~IsOk(decoded) THEN decoded
            ELSE expand_set(decoded.val, mysql_field_type, set_values)
        decoded(corrected) ==
            IF ~IsOk(corrected) THEN corrected
            ELSE decode_text(corrected.val, mysql_field_type, clickhouse_field_type, mysql_structure)
        corrected(as_uuid) ==
            IF ~IsOk(as_uuid) THEN as_uuid
            ELSE unsigned_corrections(as_uuid.val, mysql_field_type, clickhouse_field_type)
    IN  expanded(decoded(corrected(uuid_to_bytes(value, clickhouse_field_type))))

\* the conversion of one value that is transcoded (lines 383-454, without the schema lookup):
\* idx is the index of the value in the row, counted from 0
convert_field_value(mysql_field_value, idx, mysql_field_type, clickhouse_field_type, mysql_structure) ==
    LET field == mysql_structure.fields[idx + 1]
        field_name == IF idx < Len(mysql_structure.fields) THEN field.name ELSE "unknown"
        as_enum(value) ==
            IF ~IsOk(value) \/ ~startswith(mysql_field_type, "enum(") THEN value
            ELSE convert_mysql_to_clickhouse_enum(value.val, field.additional_data, field_name)
        as_point(value) ==
            IF ~IsOk(value) \/ ~startswith(mysql_field_type, "point") THEN value
            ELSE parse_mysql_point(value.val)
        not_none(value) ==
            IF ~IsOk(value) \/ value.val.type = "NoneType" THEN value
            ELSE convert_not_none(value.val, mysql_field_type, clickhouse_field_type,
                                  mysql_structure, field.additional_data)
        as_json(value) ==
            IF ~IsOk(value) THEN value
            ELSE json_to_str(value.val, mysql_field_type, clickhouse_field_type)
    IN  as_enum(as_point(not_none(as_json(
            time_to_str(mysql_field_value, mysql_field_type, clickhouse_field_type)))))

\* repr(text) of a str without a backslash: double quotes when the text holds a single
\* quote and no double quote, single quotes otherwise
str_repr(text) ==
    IF contains(text, SQ) /\ ~contains(text, DQ) THEN DQ \o text \o DQ
    ELSE SQ \o replace(text, SQ, BACKSLASH \o SQ) \o SQ

RECURSIVE TypeList(_)
\* the items of the text of a list of str
TypeList(types) == IF types = <<>> THEN <<>> ELSE <<str_repr(Head(types))>> \o TypeList(Tail(types))

\* the IndexError of lines 390-395
mismatch_error(idx, mysql_field_value, mysql_record, mysql_field_types, mysql_structure) ==
    Raise("IndexError: Field index " \o int_str(SmallInt(idx)) \o " out of range for table '"
          \o mysql_structure.table_name \o "' with field_value: " \o py_str(mysql_field_value)
          \o ". Record has " \o int_str(SmallInt(Len(mysql_record))) \o " fields but schema has "
          \o int_str(SmallInt(Len(mysql_field_types))) \o " fields. Field types defined in schema: ["
          \o join(", ", TypeList(mysql_field_types))
          \o "]. This may indicate a schema mismatch between MySQL and the replication process.")

\* convert_record_value without the check of the index against the schema: a value beyond
\* the schema is appended as it is
convert_record_value_unchecked(mysql_record, idx, mysql_field_types, clickhouse_field_types, mysql_structure, only_primary) ==
    IF only_primary /\ \A k \in 1..Len(mysql_structure.primary_key_ids) : mysql_structure.primary_key_ids[k] # idx
    THEN Ok(mysql_record[idx + 1])
    ELSE IF idx >= Len(mysql_field_types) THEN Ok(mysql_record[idx + 1])
    ELSE IF idx >= Len(clickhouse_field_types) THEN Raise("IndexError: list index out of range")
    ELSE convert_field_value(mysql_record[idx + 1], idx, mysql_field_types[idx + 1],
                             clickhouse_field_types[idx + 1], mysql_structure)

\* convert_record_value with only_primary ignored: every value goes through the pipeline
convert_record_value_all(mysql_record, idx, mysql_field_types, clickhouse_field_types, mysql_structure, only_primary) ==
    IF idx >= Len(mysql_field_types)
    THEN mismatch_error(idx, mysql_record[idx + 1], mysql_record, mysql_field_types, mysql_structure)
    ELSE IF idx >= Len(clickhouse_field_types) THEN Raise("IndexError: list index out of range")
    ELSE convert_field_value(mysql_record[idx + 1], idx, mysql_field_types[idx + 1],
                             clickhouse_field_types[idx + 1], mysql_structure)

\* one turn of the loop of convert_record, for the value at idx (counted from 0)
convert_record_value(mysql_record, idx, mysql_field_types, clickhouse_field_types, mysql_structure, only_primary) ==
    LET mysql_field_value == mysql_record[idx + 1]
    IN  IF only_primary /\ \A k \in 1..Len(mysql_structure.primary_key_ids) : mysql_structure.primary_key_ids[k] # idx
        THEN Ok(mysql_field_value)
        ELSE IF idx >= Len(mysql_field_types)
             THEN mismatch_error(idx, mysql_field_value, mysql_record, mysql_field_types, mysql_structure)
        ELSE IF idx >= Len(clickhouse_field_types) THEN Raise("IndexError: list index out of range")
        ELSE convert_field_value(mysql_field_value, idx, mysql_field_types[idx + 1],
                                 clickhouse_field_types[idx + 1], mysql_structure)

RECURSIVE convert_record_from(_, _, _, _, _, _, _)
\* the loop of convert_record from idx on: clickhouse_record holds the values converted so far
convert_record_from(clickhouse_record, mysql_record, idx, mysql_field_types, clickhouse_field_types, mysql_structure, only_primary) ==
    LET appended(value) ==
            IF ~IsOk(value) THEN value
            ELSE convert_record_from(Append(clickhouse_record, value.val), mysql_record, idx + 1,
                                     mysql_field_types, clickhouse_field_types, mysql_structure, only_primary)
    IN  IF idx >= Len(mysql_record) THEN Ok(clickhouse_record)
        ELSE appended(convert_record_value(mysql_record, idx, mysql_field_types, clickhouse_field_types,
                                           mysql_structure, only_primary))

\* convert_record(mysql_record, mysql_field_types, clickhouse_field_types, mysql_structure, only_primary)
convert_record(mysql_record, mysql_field_types, clickhouse_field_types, mysql_structure, only_primary) ==
    convert_record_from(<<>>, mysql_record, 0, mysql_field_types, clickhouse_field_types,
                        mysql_structure, only_primary)

(***************************************************************************)
(* The environment: the schema snapshot and the statements of the binlog   *)
(***************************************************************************)

\* the most statements of the binlog that are replayed
MaxStatements == 2

\* a field as the DDL snapshot parser builds it
SnapshotField(name, field_type, parameters) ==
    [name |-> name, field_type |-> field_type, parameters |-> parameters,
     additional_data |-> IF startswith(lower(field_type), "enum(") \/ startswith(lower(field_type), "set(")
                         THEN Some(parse_mysql_enum(field_type)) ELSE None]

\* a MySQL structure as the DDL snapshot parser builds it
Snapshot(table_name, fields, primary_keys) ==
    preprocess([table_name |-> table_name, fields |-> fields,
                primary_keys |-> primary_keys, primary_key_ids |-> <<>>])

\* the schema pair of a snapshot: the MySQL structure and the ClickHouse structure derived from it
SchemaPair(mysql_structure) ==
    [mysql |-> mysql_structure, ch |-> convert_table_structure(mysql_structure).val]

\* CREATE TABLE t (a int NOT NULL, b varchar(10) DEFAULT NULL, PRIMARY KEY (a))
SnapshotT ==
    Snapshot("t", <<SnapshotField("a", "int", "NOT NULL"),
                    SnapshotField("b", "varchar(10)", "DEFAULT NULL")>>, <<"a">>)

\* a sub-operation: its text, and what the text was written to mean
\*   kind: add | skip | noop | unsupported | drop | modify | change | malformed
\*   name: the column added;  pos: first | after | last;  after: the column named by AFTER
\*   keyword: the leading keyword, lower-cased
Op(text, kind, keyword, name, pos, after) ==
    [text |-> text, kind |-> kind, keyword |-> keyword, name |-> name, pos |-> pos, after |-> after]

AddOps ==
    { Op("ADD COLUMN c INT", "add", "add", "c", "last", ""),
      Op("ADD c VARCHAR(10) AFTER a", "add", "add", "c", "after", "a"),
      Op("add column d int NOT NULL first", "add", "add", "d", "first", ""),
      Op("ADD COLUMN " \o BQ \o "d" \o BQ \o " NUMERIC(5,2) AFTER " \o BQ \o "b" \o BQ,
         "add", "add", "d", "after", "b"),
      Op("ADD COLUMN e BIGINT DEFAULT 0 AFTER c", "add", "add", "e", "after", "c") }

BadAddOps ==
    { Op("ADD COLUMN c GEOMETRY", "malformed", "add", "c", "last", ""),
      Op("ADD COLUMN c", "malformed", "add", "c", "last", ""),
      Op("ADD COLUMN e INT UNSIGNED", "add", "add", "e", "last", "") }

SkipOps ==
    { Op("ADD INDEX idx_ab (a, b)", "skip", "add", "", "", ""),
      Op("DROP FOREIGN KEY fk", "skip", "drop", "", "", ""),
      Op("ALTER COLUMN a SET DEFAULT 1", "noop", "alter", "", "", ""),
      Op("AUTO_INCREMENT = 5", "noop", "auto_increment", "", "", "") }

UnsupportedOps ==
    { Op("RENAME COLUMN a TO z", "unsupported", "rename", "", "", ""),
      Op("ENGINE = InnoDB", "unsupported", "engine", "", "", ""),
      Op("FORCE", "unsupported", "force", "", "", "") }

OtherOps ==
    { Op("DROP COLUMN b", "drop", "drop", "b", "", ""),
      Op("MODIFY COLUMN b TEXT NOT NULL", "modify", "modify", "b", "", ""),
      Op("CHANGE COLUMN c c2 BIGINT", "change", "change", "c", "", "") }

SubOps == AddOps \cup BadAddOps \cup SkipOps \cup UnsupportedOps \cup OtherOps

OpOf(text) == CHOOSE o \in SubOps : o.text = text

\* the sub-operation lists of the statements: every single sub-operation, and pairs of
\* a sub-operation that is applied or skipped followed by one that is applied or fails
OpLists ==
    { <<o>> : o \in SubOps }
    \cup { <<o1, o2>> :
             o1 \in { OpOf("ADD COLUMN c INT"), OpOf("ADD INDEX idx_ab (a, b)") },
             o2 \in { p \in AddOps : p.name # "c" }
                    \cup { OpOf("ADD COLUMN c GEOMETRY"), OpOf("RENAME COLUMN a TO z"), OpOf("FORCE") } }

RECURSIVE Texts(_)
Texts(ops) == IF ops = <<>> THEN <<>> ELSE <<Head(ops).text>> \o Texts(Tail(ops))

\* a call of convert_alter_query: its two arguments, and what the statement was written
\* from (the database and table it names, its sub-operations, its text without the
\* closing semicolon, whether it is one ALTER TABLE statement)
AlterCall(ref, db_name, ref_db, ref_table, ops, end) ==
    [op |-> "convert_alter_query",
     mysql_query |-> "ALTER TABLE " \o ref \o " " \o join(", ", Texts(ops)) \o end,
     db_name |-> db_name, ref_db |-> ref_db, ref_table |-> ref_table, ops |-> ops,
     statement |-> "ALTER TABLE " \o ref \o " " \o join(", ", Texts(ops)),
     well_formed |-> TRUE]

MalformedCall(mysql_query) ==
    [op |-> "convert_alter_query", mysql_query |-> mysql_query, db_name |-> database,
     ref_db |-> "", ref_table |-> "", ops |-> <<>>, statement |-> mysql_query,
     well_formed |-> FALSE]

\* the tables named by the statements: by name alone, backquoted, with the source
\* database, with the target database, with a database that is not replicated
TableRefs ==
    { [ref |-> "x", db_name |-> database, ref_db |-> database, ref_table |-> "x"],
      [ref |-> "t", db_name |-> "other", ref_db |-> "other", ref_table |-> "t"],
      [ref |-> "other.t", db_name |-> database, ref_db |-> "other", ref_table |-> "t"],
      [ref |-> BQ \o "shop" \o BQ \o "." \o BQ \o "t" \o BQ, db_name |-> "other",
       ref_db |-> "shop", ref_table |-> "t"],
      [ref |-> "shop_ch.t", db_name |-> "other", ref_db |-> "shop_ch", ref_table |-> "t"] }

\* the sub-operation lists replayed against the tables named with a database or other than t
RefOpLists ==
    { <<OpOf("ADD COLUMN c INT")>>, <<OpOf("FORCE")>>,
      <<OpOf("ADD COLUMN c INT"), OpOf("RENAME COLUMN a TO z")>> }

AlterCalls ==
    { AlterCall("t", database, database, "t", ops, "") : ops \in OpLists }
    \cup { AlterCall(r.ref, r.db_name, r.ref_db, r.ref_table, ops, ";") : r \in TableRefs, ops \in RefOpLists }
    \cup { MalformedCall("ALTER TABLE t ADD COLUMN c INT; ALTER TABLE t ADD COLUMN d INT"),
           MalformedCall("CREATE TABLE t (a INT)"),
           MalformedCall("ALTER TABLE") }

Machine(ts) == [ts |-> ts, executed |-> <<>>, err |-> ""]

\* the outcome of a call that ran on the machine m
Outcome(m) == IF m.err = "" THEN Ok("None") ELSE Raise(m.err)

Init ==
    /\ types_mapping = [k \in {"char(36)"} |-> "UUID"]
    /\ tables_structure = [n \in {"t"} |-> SchemaPair(SnapshotT)]
    /\ before = tables_structure
    /\ call = [op |-> "init"]
    /\ result = Ok("None")
    /\ executed = <<>>
    /\ calls = 0

\* one statement of the binlog is translated
AlterQuery ==
    \E c \in AlterCalls :
        \E m \in {convert_alter_query(Machine(tables_structure), c.mysql_query, c.db_name)} :
            /\ calls < MaxStatements
            /\ tables_structure' = m.ts
            /\ before' = tables_structure
            /\ call' = c
            /\ result' = Outcome(m)
            /\ executed' = m.executed
            /\ calls' = calls + 1
            /\ UNCHANGED types_mapping

Next == AlterQuery

Spec == Init /\ [][Next]_vars

(***************************************************************************)
(* The environment of the transcoder: a table of two columns and one row   *)
(***************************************************************************)

\* the most values a row holds
MaxRowLen == 3

\* a column of the table: its declaration, the values the rows hold in it, and what the
\* declaration was written to mean (width: the bits of its unsigned integer type, 0 when it
\* has none; mediumint: a mediumint; bad: the values written to fail their conversion)
Column(name, field_type, parameters, values, width, mediumint, bad) ==
    [name |-> name, field_type |-> field_type, parameters |-> parameters, values |-> values,
     width |-> width, mediumint |-> mediumint, bad |-> bad]

\* a WKB POINT of 25 bytes: SRID 0, little-endian, type 1, x = 1.0, y = 2.0
WkbPoint == PyBytes("00000000" \o "01" \o "01000000" \o "000000000000f03f" \o "0000000000000040")

IdColumn ==
    Column("id", "int", "unsigned NOT NULL", {SmallInt(7), SmallInt(-1), PyStr("k")}, 32, FALSE, {PyStr("k")})

Columns ==
    { Column("c", "tinyint", "unsigned", {SmallInt(-1), SmallInt(-128), SmallInt(200), PyNone}, 8, FALSE, {}),
      Column("c", "smallint", "unsigned", {SmallInt(-1), SmallInt(-32768), SmallInt(0), SmallInt(-70000)}, 16, FALSE, {}),
      Column("c", "smallint(5)", "UNSIGNED NOT NULL", {SmallInt(-2), SmallInt(40000)}, 16, FALSE, {}),
      Column("c", "mediumint", "unsigned", {SmallInt(-1), SmallInt(5)}, 32, TRUE, {}),
      Column("c", "int", "unsigned", {SmallInt(-1), PyInt(TRUE, <<0, 32768>>), SmallInt(2000000000)}, 32, FALSE, {}),
      Column("c", "bigint", "unsigned DEFAULT 0", {SmallInt(-1), PyInt(TRUE, <<0, 0, 0, 32768>>),
                                                   PyInt(FALSE, <<65535, 65535, 65535, 32767>>)}, 64, FALSE, {}),
      Column("c", "int", "", {SmallInt(-1), SmallInt(1)}, 0, FALSE, {}),
      Column("c", "varchar(10)", "", {PyStr("ab"), BytesOf("ab"), PyNone}, 0, FALSE, {}),
      Column("c", "set('a','b','c')", "", {SmallInt(m) : m \in 0..8} \cup {PySet(labels) : labels \in SUBSET {"a", "b", "c"}} \cup {PyNone},
             0, FALSE, {}),
      Column("c", "enum('x','y')", "", {SmallInt(2), PyStr("Y"), PyStr("z"), PyNone}, 0, FALSE, {PyStr("z")}),
      Column("c", "point", "", {WkbPoint, BytesOf("ab"), PyNone}, 0, FALSE, {BytesOf("ab")}),
      Column("c", "time", "", {PyTimedelta("1:02:03"), PyNone}, 0, FALSE, {}),
      Column("c", "json", "", {PyStr("{}"), PyNone}, 0, FALSE, {}),
      Column("c", "char(36)", "", {PyStr("123E4567-e89b-12d3-a456-426614174000"),
                                   PyStr("123E4567-e89b-12d3-a456-42661417400g"), PyNone}, 0, FALSE,
             {PyStr("123E4567-e89b-12d3-a456-42661417400g")}) }

\* the values a row holds beyond the columns of the table
ExtraValues == {SmallInt(-1), PyNone}

\* the rows of at most n values for the columns cols: a value of each column, then extra values
RECURSIVE Rows(_, _)
Rows(cols, n) ==
    IF n = 0 THEN {<<>>}
    ELSE Rows(cols, n - 1)
         \cup { Append(row, v) : row \in {r \in Rows(cols, n - 1) : Len(r) = n - 1},
                                 v \in IF n <= Len(cols) THEN cols[n].values ELSE ExtraValues }

\* the table r of the columns cols, with the primary key id
SnapshotR(cols) ==
    Snapshot("r", [i \in 1..Len(cols) |-> SnapshotField(cols[i].name, cols[i].field_type, cols[i].parameters)],
             <<"id">>)

\* a call of convert_record: the row and only_primary, and the columns the table was made of
RecordCall(cols, row, only_primary) ==
    [op |-> "convert_record", mysql_record |-> row, only_primary |-> only_primary,
     table_name |-> "r", columns |-> cols]

RecordInit ==
    /\ types_mapping = [k \in {"char(36)"} |-> "UUID"]
    /\ \E cols \in {<<IdColumn, col>> : col \in Columns} \cup {<<col, IdColumn>> : col \in Columns} :
           /\ tables_structure = [n \in {"r"} |-> SchemaPair(SnapshotR(cols))]
           /\ \E row \in Rows(cols, MaxRowLen), only_primary \in BOOLEAN :
                  call = RecordCall(cols, row, only_primary)
    /\ before = tables_structure
    /\ result = Ok("None")
    /\ executed = <<>>
    /\ calls = 0

\* mysql_field_types and clickhouse_filed_types as convert_records passes them
FieldTypes(structure) == [i \in 1..Len(structure.fields) |-> structure.fields[i].field_type]

\* the row of the call is transcoded against the schema pair of its table
ConvertRecord ==
    /\ call.op = "convert_record"
    /\ calls = 0
    /\ result' = convert_record(call.mysql_record,
                                FieldTypes(tables_structure[call.table_name].mysql),
                                FieldTypes(tables_structure[call.table_name].ch),
                                tables_structure[call.table_name].mysql, call.only_primary)
    /\ calls' = calls + 1
    /\ UNCHANGED <<types_mapping, tables_structure, before, call, executed>>

RecordNext == ConvertRecord

RecordSpec == RecordInit /\ [][RecordNext]_vars

(***************************************************************************)
(* The claims about the translation of ALTER TABLE statements              *)
(***************************************************************************)

\* the names of the fields of a structure, in order
FieldNames(structure) == [i \in 1..Len(structure.fields) |-> structure.fields[i].name]

\* seq with x inserted so that it stands at index i
InsertedAt(seq, i, x) == SubSeq(seq, 1, i - 1) \o <<x>> \o SubSeq(seq, i, Len(seq))

\* the last call was convert_alter_query on one well-formed ALTER TABLE statement
AlterCalled == call.op = "convert_alter_query" /\ call.well_formed

\* the statement of the last call names a database and a table that the inclusion
\* filters accept, the source database standing for the target database
CallIncluded ==
    /\ (IF call.ref_db = database THEN target_database ELSE call.ref_db) \in IncludedDatabases
    /\ call.ref_table \in IncludedTables

\* the sub-operations of the last call that were written as additions of a column
AddsOf(ops) == {k \in 1..Len(ops) : ops[k].kind = "add"}

\* C1: in every state, after any sequence of statements and after every sub-operation
\* applied, the two mirrors of every table have the same number of fields and the same
\* field name at every position
C1_OrderParity ==
    \A n \in DOMAIN tables_structure :
        FieldNames(tables_structure[n].mysql) = FieldNames(tables_structure[n].ch)

\* a second statement added a column AFTER a named column and a first one added another
C1_Witness ==
    /\ AlterCalled /\ IsOk(result) /\ calls = 2
    /\ \E k \in AddsOf(call.ops) : call.ops[k].pos = "after"
    /\ Len(tables_structure["t"].ch.fields) = 4
    /\ Len(before["t"].ch.fields) = 3

\* C2: a statement of several sub-operations that fails leaves both mirrors exactly as
\* they were before the call
C2_StatementAtomicity ==
    (AlterCalled /\ Len(call.ops) >= 2 /\ ~IsOk(result)) => tables_structure = before

\* the statement of the last call holds one addition of a column, and nothing else but
\* sub-operations that are skipped
OneAddition == AlterCalled /\ CallIncluded /\ Cardinality(AddsOf(call.ops)) = 1
               /\ \A k \in 1..Len(call.ops) : call.ops[k].kind \in {"add", "skip", "noop"}
TheAddition == call.ops[CHOOSE k \in AddsOf(call.ops) : TRUE]

\* new is old with the field of the addition o inserted where o asks for it
PositionedAsAsked(old, new, o) ==
    /\ Len(new) = Len(old) + 1
    /\ o.pos = "first" => new = InsertedAt(old, 1, o.name)
    /\ o.pos = "last" => new = InsertedAt(old, Len(old) + 1, o.name)
    /\ o.pos = "after" => \E i \in 1..Len(old) : old[i] = o.after /\ new = InsertedAt(old, i + 1, o.name)

\* C4: an addition that was applied to a non-empty schema pair put the new field, in both
\* mirrors, at index 0 for FIRST, right after the named column for AFTER, after the last
\* column otherwise; the other fields kept their order and each mirror grew by one field
C4_AddPositioning ==
    (OneAddition /\ IsOk(result) /\ before[call.ref_table].mysql.fields # <<>>) =>
        /\ PositionedAsAsked(FieldNames(before[call.ref_table].mysql),
                             FieldNames(tables_structure[call.ref_table].mysql), TheAddition)
        /\ PositionedAsAsked(FieldNames(before[call.ref_table].ch),
                             FieldNames(tables_structure[call.ref_table].ch), TheAddition)

\* (a, b) plus ADD COLUMN d ... AFTER b is (a, b, d) in both mirrors
C4_Witness ==
    /\ OneAddition /\ IsOk(result)
    /\ TheAddition.pos = "after" /\ TheAddition.after = "b"
    /\ FieldNames(before["t"].mysql) = <<"a", "b">>
    /\ FieldNames(tables_structure["t"].mysql) = <<"a", "b", "d">>
    /\ FieldNames(tables_structure["t"].ch) = <<"a", "b", "d">>

\* the first sub-operation of the last call that none of the supported keywords leads, when
\* only skipped sub-operations stand before it; 0 when there is none
FirstUnsupported(ops) ==
    LET at == {k \in 1..Len(ops) : /\ ops[k].kind = "unsupported"
                                   /\ \A j \in 1..(k - 1) : ops[j].kind \in {"skip", "noop"}}
    IN  IF at = {} THEN 0 ELSE CHOOSE k \in at : TRUE

\* C5: a sub-operation on an included table that none of the supported keywords leads makes
\* the call fail with a failure that names the operation and the whole statement, and it
\* is not applied
C5_FailFastDispatch ==
    (AlterCalled /\ CallIncluded /\ FirstUnsupported(call.ops) # 0) =>
        /\ ~IsOk(result)
        /\ contains(result.err, "operation " \o call.ops[FirstUnsupported(call.ops)].keyword)
        /\ contains(result.err, call.statement)
        /\ tables_structure = before

\* C6: a statement on a database or a table that the inclusion filters exclude returns,
\* changes neither mirror and executes no destination DDL, whatever its sub-operations
C6_ExcludedNoOp ==
    (AlterCalled /\ ~CallIncluded) =>
        /\ result = Ok("None")
        /\ tables_structure = before
        /\ executed = <<>>

\* a statement on the table t of a database that is not replicated, with a sub-operation
\* that is not supported, returned
C6_Witness ==
    /\ AlterCalled /\ ~CallIncluded /\ call.ref_table = "t"
    /\ \E k \in 1..Len(call.ops) : call.ops[k].kind = "unsupported"
    /\ result = Ok("None") /\ tables_structure = before /\ executed = <<>>

(***************************************************************************)
(* The environment of convert_field_type: a column type and its parameters *)
(* as the parsers hand them over, under a types_mapping of the             *)
(* configuration                                                           *)
(***************************************************************************)

\* a MySQL type as written, and whether it is the POINT type
TypeCase(text, point) == [text |-> text, point |-> point]

TypeCases ==
    {TypeCase("int", FALSE), TypeCase("INT", FALSE), TypeCase("bigint", FALSE),
     TypeCase("tinyint(1)", FALSE), TypeCase("smallint(5)", FALSE),
     TypeCase("point", TRUE), TypeCase("POINT", TRUE), TypeCase("Point", TRUE),
     TypeCase("varchar(255)", FALSE), TypeCase("char(36)", FALSE), TypeCase("text", FALSE),
     TypeCase("decimal(10,2)", FALSE), TypeCase("numeric(5,2)", FALSE),
     TypeCase("timestamp(3)", FALSE), TypeCase("datetime(6)", FALSE),
     TypeCase("json", FALSE), TypeCase("double", FALSE), TypeCase("geometry", FALSE)}

\* the parameters of a column as written, and whether they say NOT NULL
ParameterCase(text, not_null) == [text |-> text, not_null |-> not_null]

ParameterCases ==
    {ParameterCase("", FALSE), ParameterCase("unsigned", FALSE), ParameterCase("NULL", FALSE),
     ParameterCase("DEFAULT NULL", FALSE), ParameterCase("UNSIGNED DEFAULT 0", FALSE),
     ParameterCase("NOT NULL", TRUE), ParameterCase("not null", TRUE),
     ParameterCase("Not Null", TRUE), ParameterCase("unsigned NOT NULL", TRUE),
     ParameterCase("DEFAULT 0 NOT NULL AUTO_INCREMENT", TRUE)}

TypeCall(type, parameters) ==
    [op |-> "convert_field_type", mysql_type |-> type.text, mysql_parameters |-> parameters.text,
     point |-> type.point, not_null |-> parameters.not_null]

TypeInit ==
    /\ types_mapping \in {[k \in {} |-> ""], [k \in {"char(36)"} |-> "UUID"]}
    /\ tables_structure = [n \in {} |-> ""]
    /\ before = tables_structure
    /\ \E type \in TypeCases, parameters \in ParameterCases : call = TypeCall(type, parameters)
    /\ result = Ok("None")
    /\ executed = <<>>
    /\ calls = 0

\* the type of the call is converted
ConvertFieldType ==
    /\ call.op = "convert_field_type"
    /\ calls = 0
    /\ result' = convert_field_type(call.mysql_type, call.mysql_parameters)
    /\ calls' = calls + 1
    /\ UNCHANGED <<types_mapping, tables_structure, before, call, executed>>

TypeNext == ConvertFieldType

TypeSpec == TypeInit /\ [][TypeNext]_vars

(***************************************************************************)
(* The environment of split_high_level: a text of letters, commas,         *)
(* parentheses and spaces, split at the comma                              *)
(***************************************************************************)

MaxDataLen == 4

DataChars == {"a", ",", "(", ")", " "}

RECURSIVE DataOfLen(_)
\* the texts of n characters
DataOfLen(n) == IF n = 0 THEN {""} ELSE {d \o c : d \in DataOfLen(n - 1), c \in DataChars}

DataExamples == {"ADD COLUMN a NUMERIC(5,2), ADD COLUMN b INT"}

DataTexts == UNION {DataOfLen(n) : n \in 0..MaxDataLen} \cup DataExamples

SplitCall(data) == [op |-> "split_high_level", data |-> data, token |-> ","]

SplitInit ==
    /\ types_mapping = [k \in {} |-> ""]
    /\ tables_structure = [n \in {} |-> ""]
    /\ before = tables_structure
    /\ \E data \in DataTexts : call = SplitCall(data)
    /\ result = Ok("None")
    /\ executed = <<>>
    /\ calls = 0

\* the text of the call is split
SplitHighLevel ==
    /\ call.op = "split_high_level"
    /\ calls = 0
    /\ result' = Ok(split_high_level(call.data, call.token))
    /\ calls' = calls + 1
    /\ UNCHANGED <<types_mapping, tables_structure, before, call, executed>>

SplitNext == SplitHighLevel

SplitSpec == SplitInit /\ [][SplitNext]_vars

(***************************************************************************)
(* The claims about the transcoding of a row                               *)
(***************************************************************************)

\* the last call was convert_record, and it has ended
RecordCalled == call.op = "convert_record" /\ calls = 1

\* the indices (from 1) of the values of the row that stand under a column of the table
Within == 1..Min({Len(call.mysql_record), Len(call.columns)})

\* the value at i goes through the pipeline: every value does, unless only_primary is set,
\* and then the value of the primary key id alone
Transcoded(i) == ~call.only_primary \/ (i <= Len(call.columns) /\ call.columns[i].name = "id")

\* a value of the row that goes through the pipeline was written to fail its conversion
SomeBadValue == \E i \in Within : Transcoded(i) /\ call.mysql_record[i] \in call.columns[i].bad

\* the row of the last call has fewer values than the table has columns, or more
ShortRow == Len(call.mysql_record) < Len(call.columns)
LongRow == Len(call.mysql_record) > Len(call.columns)

\* the text names the table, the index of the first value beyond the schema, the two
\* field counts and the type of every column
NamesTheMismatch(text) ==
    /\ startswith(text, "IndexError: Field index " \o str_of(Len(call.columns)) \o " out of range")
    /\ contains(text, "for table " \o SQ \o call.table_name \o SQ)
    /\ contains(text, "Record has " \o str_of(Len(call.mysql_record)) \o " fields but schema has "
                       \o str_of(Len(call.columns)) \o " fields")
    /\ \E at \in 1..Len(text) :
           /\ SubSeq(text, at, Min({Len(text), at + 31})) = "Field types defined in schema: ["
           /\ \A i \in 1..Len(call.columns) : contains(From(text, at), call.columns[i].field_type)

\* C3 as the specification states it: a row with fewer values than the schema has fields
\* makes convert_record fail with the mismatch error, and no row is returned for it
C3_ShortRowRejected ==
    (RecordCalled /\ ShortRow) => (~IsOk(result) /\ NamesTheMismatch(result.err))

\* C3 as the code has it: a row with more values than the schema has fields, converted
\* without only_primary, is never returned; the call fails, and with the mismatch error
\* that names the table, the index, the two field counts and the field types when the
\* values under the schema were converted
C3_LongRowRejected ==
    (RecordCalled /\ LongRow /\ ~call.only_primary) =>
        /\ ~IsOk(result)
        /\ ~SomeBadValue => NamesTheMismatch(result.err)

\* a row of three values for a table of two columns failed with the mismatch error
C3_Witness ==
    /\ RecordCalled /\ LongRow /\ ~call.only_primary /\ ~SomeBadValue
    /\ Len(call.mysql_record) = 3
    /\ ~IsOk(result) /\ NamesTheMismatch(result.err)

\* C7: with only_primary set, the row returned has as many values as the row given, every
\* value that does not stand at the index of the primary key is the value given, and the
\* value of the primary key went through the pipeline (-1 under UInt32 became 4294967295);
\* the call fails only on a value of the primary key
C7_OnlyPrimaryPassThrough ==
    (RecordCalled /\ call.only_primary) =>
        /\ IsOk(result) <=> ~SomeBadValue
        /\ IsOk(result) =>
               /\ Len(result.val) = Len(call.mysql_record)
               /\ \A i \in 1..Len(call.mysql_record) :
                      /\ ~Transcoded(i) => result.val[i] = call.mysql_record[i]
                      /\ (Transcoded(i) /\ call.mysql_record[i] = SmallInt(-1))
                             => result.val[i] = PyInt(FALSE, <<65535, 65535>>)

\* with only_primary set, (-1, -1) for (id int unsigned, c smallint unsigned) became
\* (4294967295, -1)
C7_Witness ==
    /\ RecordCalled /\ call.only_primary /\ IsOk(result)
    /\ call.columns[1].name = "id" /\ call.columns[2].field_type = "smallint"
    /\ call.mysql_record = <<SmallInt(-1), SmallInt(-1)>>
    /\ result.val = <<PyInt(FALSE, <<65535, 65535>>), SmallInt(-1)>>

\* the int 2^w, for a width w
PowerOfTwo(w) == PyInt(FALSE, [i \in 1..(w \div 16 + 1) |-> IF i = w \div 16 + 1 THEN 2 ^ (w % 16) ELSE 0])

\* -v, for an int v
Negated(v) == PyInt(~v.neg, v.mag)

\* v is an int of -2^(w-1)..-1, and out one of 2^(w-1)..2^w - 1
LowerHalf(v, w) == v.neg /\ ~MagLess(PowerOfTwo(w - 1).mag, v.mag)
UpperHalf(out, w) == ~out.neg /\ ~MagLess(out.mag, PowerOfTwo(w - 1).mag) /\ MagLess(out.mag, PowerOfTwo(w).mag)

\* C8: a value v that goes through the pipeline under a column of the unsigned integer type
\* of width W, not a mediumint, is emitted as v + 2^W when it is an int below 0 (exactly one
\* modulus, that of W, is added; -2^(W-1)..-1 land in 2^(W-1)..2^W - 1) and unchanged when
\* it is an int that is not below 0
C8_UnsignedCorrection ==
    (RecordCalled /\ IsOk(result)) =>
        \A i \in Within :
            (/\ Transcoded(i)
             /\ call.columns[i].width # 0 /\ ~call.columns[i].mediumint
             /\ call.mysql_record[i].type = "int") =>
                /\ result.val[i].type = "int"
                /\ ~call.mysql_record[i].neg => result.val[i] = call.mysql_record[i]
                /\ call.mysql_record[i].neg =>
                       int_add(result.val[i], Negated(call.mysql_record[i])) = PowerOfTwo(call.columns[i].width)
                /\ LowerHalf(call.mysql_record[i], call.columns[i].width)
                       => UpperHalf(result.val[i], call.columns[i].width)

\* -1 under a smallint unsigned column (UInt16) was emitted as 65535
C8_Witness ==
    /\ RecordCalled /\ IsOk(result) /\ ~call.only_primary
    /\ \E i \in Within :
           /\ call.columns[i].field_type = "smallint" /\ call.columns[i].width = 16
           /\ tables_structure[call.table_name].ch.fields[i].field_type = "Nullable(UInt16)"
           /\ call.mysql_record[i] = SmallInt(-1)
           /\ result.val[i] = PyInt(FALSE, <<65535>>)

(***************************************************************************)
(* The claims about split_high_level and convert_field_type                *)
(***************************************************************************)

SplitCalled == call.op = "split_high_level" /\ calls = 1

\* the parenthesis depth of the character at i of data: the "(" before it less the ")"
Depth(data, i) ==
    Cardinality({j \in 1..(i - 1) : Ch(data, j) = "("}) - Cardinality({j \in 1..(i - 1) : Ch(data, j) = ")"})

\* the places of the commas of data at depth 0
Cuts(data) == {i \in 1..Len(data) : Ch(data, i) = "," /\ Depth(data, i) = 0}

\* the place of the n-th comma at depth 0; 0 for n = 0, and past the end of data after the last
CutAt(data, n) ==
    IF n = 0 THEN 0
    ELSE IF n > Cardinality(Cuts(data)) THEN Len(data) + 1
    ELSE CHOOSE i \in Cuts(data) : Cardinality({j \in Cuts(data) : j < i}) = n - 1

\* the text between the (n-1)-th and the n-th comma at depth 0
Segment(data, n) == SubSeq(data, CutAt(data, n - 1) + 1, CutAt(data, n) - 1)

\* every ")" of data closes a "(" before it, and every "(" is closed
Balanced(data) == Depth(data, Len(data) + 1) = 0 /\ \A i \in 1..Len(data) : Depth(data, i + 1) >= 0

\* the commas of a text
Commas(text) == Cardinality({j \in 1..Len(text) : Ch(text, j) = ","})

\* C9: split_high_level(data, ",") cuts data at the commas at parenthesis depth 0 and nowhere
\* else: the pieces are the segments between these commas, in order and stripped, the
\* last one left out when it is empty; balanced data with k such commas and a last segment
\* that is not empty gives k + 1 pieces, and the commas inside parentheses stay in them
C9_TopLevelSplit ==
    SplitCalled =>
        /\ IsOk(result)
        /\ Len(result.val) = Cardinality(Cuts(call.data))
                                + (IF Segment(call.data, Cardinality(Cuts(call.data)) + 1) # "" THEN 1 ELSE 0)
        /\ \A n \in 1..Len(result.val) : result.val[n] = strip(Segment(call.data, n))
        /\ (Balanced(call.data) /\ Segment(call.data, Cardinality(Cuts(call.data)) + 1) # "") =>
               /\ Len(result.val) = Cardinality(Cuts(call.data)) + 1
               /\ Commas(join("", result.val)) = Commas(call.data) - Cardinality(Cuts(call.data))

\* the two additions of the example, one with a comma inside its type, came out as two pieces
C9_Witness ==
    /\ SplitCalled
    /\ call.data = "ADD COLUMN a NUMERIC(5,2), ADD COLUMN b INT"
    /\ result = Ok(<<"ADD COLUMN a NUMERIC(5,2)", "ADD COLUMN b INT">>)

TypeCalled == call.op = "convert_field_type" /\ calls = 1

MaxAdds == 2

\* an integer type as written, and the ClickHouse type of its width when it is unsigned
IntType(text, unsigned_type) == [text |-> text, unsigned_type |-> unsigned_type]

IntTypes ==
    {IntType("INT", "UInt32"), IntType("INT(11)", "UInt32"),
     IntType("INTEGER", "UInt32"), IntType("INTEGER(11)", "UInt32"),
     IntType("BIGINT", "UInt64"), IntType("BIGINT(20)", "UInt64"),
     IntType("SMALLINT", "UInt16"), IntType("SMALLINT(5)", "UInt16"),
     IntType("TINYINT", "UInt8"), IntType("TINYINT(3)", "UInt8"),
     IntType("MEDIUMINT", "UInt32"), IntType("mediumint(8)", "UInt32")}

\* what follows the type and its modifier, and whether it says NOT NULL
AddTail(text, not_null) == [text |-> text, not_null |-> not_null]

AddTails ==
    {AddTail("", FALSE), AddTail(" NOT NULL", TRUE), AddTail(" NOT NULL AFTER a", TRUE),
     AddTail(" FIRST", FALSE)}

\* the names of the columns added, by the number of statements before
AddNames == <<"c", "d", "e", "f">>

\* a call of convert_alter_query with one ADD COLUMN, and what it was written from
AddCall(name, type, unsigned, tail) ==
    [op |-> "add_column",
     mysql_query |-> "ALTER TABLE t ADD COLUMN " \o name \o " " \o type.text
                     \o (IF unsigned THEN " UNSIGNED" ELSE "") \o tail.text,
     db_name |-> database, name |-> name, type |-> type, unsigned |-> unsigned,
     not_null |-> tail.not_null]

\* the first statement ranges over every type, modifier and tail; the later ones over a few
AddCalls(n) ==
    IF n = 0
    THEN {AddCall(AddNames[1], type, unsigned, tail) :
            type \in IntTypes, unsigned \in BOOLEAN, tail \in AddTails}
    ELSE {AddCall(AddNames[n + 1], type, unsigned, tail) :
            type \in {IntType("INT", "UInt32"), IntType("BIGINT(20)", "UInt64"), IntType("TINYINT", "UInt8")},
            unsigned \in BOOLEAN,
            tail \in {AddTail(" NOT NULL", TRUE), AddTail(" FIRST", FALSE)}}

AddInit ==
    /\ types_mapping = [k \in {"char(36)"} |-> "UUID"]
    /\ tables_structure = [n \in {"t"} |-> SchemaPair(SnapshotT)]
    /\ before = tables_structure
    /\ call = [op |-> "init"]
    /\ result = Ok("None")
    /\ executed = <<>>
    /\ calls = 0

\* one ADD COLUMN statement of the binlog is translated
AddColumnQuery ==
    \E c \in AddCalls(calls) :
        \E m \in {convert_alter_query(Machine(tables_structure), c.mysql_query, c.db_name)} :
            /\ calls < MaxAdds
            /\ tables_structure' = m.ts
            /\ before' = tables_structure
            /\ call' = c
            /\ result' = Outcome(m)
            /\ executed' = m.executed
            /\ calls' = calls + 1
            /\ UNCHANGED types_mapping

AddNext == AddColumnQuery

AddSpec == AddInit /\ [][AddNext]_vars

(***************************************************************************)
(* The claims about the additions                                          *)
(***************************************************************************)

AddCalled == call.op = "add_column"

\* the ClickHouse type the statement of the call asks for when it says UNSIGNED
UnsignedAsked ==
    IF call.not_null THEN call.type.unsigned_type ELSE "Nullable(" \o call.type.unsigned_type \o ")"

\* C11: an ADD COLUMN that declares an integer type followed by UNSIGNED is translated to
\* the unsigned ClickHouse type of that width: the call returns, the field inserted in the
\* ClickHouse mirror has this type, and so has the query sent to ClickHouse
C11_UnsignedThroughAdd ==
    (AddCalled /\ call.unsigned) =>
        /\ IsOk(result)
        /\ \E i \in 1..Len(tables_structure["t"].ch.fields) :
               /\ tables_structure["t"].ch.fields[i].name = call.name
               /\ tables_structure["t"].ch.fields[i].field_type = UnsignedAsked
        /\ executed # <<>>
        /\ contains(executed[Len(executed)], " " \o UnsignedAsked)

\* the ClickHouse field at i of the pair has the type convert_field_type gives for the
\* field_type and the parameters of the MySQL field at i, and its name
Rederived(pair, i) ==
    /\ pair.ch.fields[i].name = pair.mysql.fields[i].name
    /\ IsOk(convert_field_type(pair.mysql.fields[i].field_type, pair.mysql.fields[i].parameters))
    /\ pair.ch.fields[i].field_type
           = convert_field_type(pair.mysql.fields[i].field_type, pair.mysql.fields[i].parameters).val

\* C14: the ClickHouse mirror starts as convert_table_structure of the MySQL mirror, and
\* after every sequence of ADD COLUMN statements (NOT NULL, UNSIGNED, AFTER, FIRST in any
\* mix) it still is: the mirrors have the same number of fields, and at every position the
\* ClickHouse type is convert_field_type of the type and parameters the MySQL mirror holds
C14_SchemaPairConsistency ==
    /\ Len(tables_structure["t"].ch.fields) = Len(tables_structure["t"].mysql.fields)
    /\ \A i \in 1..Len(tables_structure["t"].mysql.fields) : Rederived(tables_structure["t"], i)

\* what the claim says a null under the column comes out as: (0, 0) under a point, null otherwise
NullEmitted(column) ==
    IF startswith(column.field_type, "point") THEN PyTuple(<<SmallInt(0), SmallInt(0)>>) ELSE PyNone

\* C12: a null that goes through the pipeline of convert_record is emitted as null, under
\* every column but a point, where it is emitted as the pair (0, 0); and a row fails only
\* for a value that is not null (or for a value beyond the schema)
C12_NullPassThrough ==
    RecordCalled =>
        /\ IsOk(result) =>
               \A i \in Within :
                   (Transcoded(i) /\ call.mysql_record[i] = PyNone)
                       => result.val[i] = NullEmitted(call.columns[i])
        /\ (~SomeBadValue /\ ~(LongRow /\ ~call.only_primary)) => IsOk(result)

\* the labels that the set column of the tables declares, in the order of the declaration
SetLabels == <<"a", "b", "c">>

\* the labels of SetLabels that are in chosen, in the order of the declaration, joined by commas
Joined(chosen) ==
    LET is_chosen(label) == label \in chosen
    IN  PyStr(join(",", SelectSeq(SetLabels, is_chosen)))

\* the number a small int that is not negative stands for
SmallValue(v) == IF v.mag = <<>> THEN 0 ELSE v.mag[1]

\* the labels whose bit, counted from 0 in the order of the declaration, is set in the mask m
Flagged(m) == {SetLabels[k] : k \in {k \in 1..Len(SetLabels) : (m \div (2 ^ (k - 1))) % 2 = 1}}

\* C13: under a set(...) column with the labels L, a bitmask m is emitted as the labels L[i]
\* whose bit i is set in m, in increasing i, joined by commas, and a set S of labels as the
\* labels of L that are in S, in the order of L, joined by commas; so m and S give the same
\* text whenever S = {L[i] : bit i of m is set}, and the empty mask and the empty set give ""
C13_SetExpansion ==
    (RecordCalled /\ IsOk(result)) =>
        \A i \in Within :
            (Transcoded(i) /\ startswith(call.columns[i].field_type, "set(")) =>
                /\ call.mysql_record[i].type = "int"
                       => result.val[i] = Joined(Flagged(SmallValue(call.mysql_record[i])))
                /\ call.mysql_record[i].type = "set"
                       => result.val[i] = Joined(call.mysql_record[i].members)
                /\ call.mysql_record[i] \in {SmallInt(0), PySet({})} => result.val[i] = PyStr("")

\* the mask 5 (bits 0 and 2) under set('a','b','c') was emitted as "a,c", the text that the
\* set {a, c} gives
C13_Witness ==
    /\ RecordCalled /\ IsOk(result) /\ ~call.only_primary
    /\ \E i \in Within :
           /\ call.columns[i].field_type = "set('a','b','c')"
           /\ call.mysql_record[i] = SmallInt(5)
           /\ Joined({"a", "c"}) = PyStr("a,c")
           /\ result.val[i] = PyStr("a,c")

====
